---- MODULE Spec2Model ----
(***************************************************************************)
(* Age-verification pipeline of S1ngleID: the date-of-birth parsers         *)
(* (server dobExtractor and client ocr.ts), the policy evaluator            *)
(* validateIDData, and the POST /api/verify/start and /api/verify/complete  *)
(* handlers with the database rows they create and delete.                  *)
(*                                                                         *)
(* Representation.                                                          *)
(*  - A YYYY-MM-DD string is the record [y, m, d] of its three numbers      *)
(*    (two-digit fields, so string equality is record equality); null is    *)
(*    NULL.  The string may name no real date (1990-02-30, 1990-14-05).     *)
(*  - Raw OCR text is a sequence of tokens: a label word, a date as it is   *)
(*    printed (year first or year last, one- or two-digit fields) or a      *)
(*    line of other text.  Each token has its printed width, so character   *)
(*    offsets and the client's context window are computed as in the code.  *)
(*  - new Date("YYYY-MM-DD") is the UTC midnight of the (rolled over) date; *)
(*    getFullYear/getMonth/getDate read it in host local time.  tz is the   *)
(*    sign of the host's UTC offset; today is the host-local calendar date. *)
(***************************************************************************)
EXTENDS Integers, Sequences, FiniteSets, TLC

VARIABLES
    today,          \* host-local calendar date of "now" (new Date())
    tz,             \* sign of the host's UTC offset: -1 west, 0 UTC, 1 east
    text,           \* raw OCR text under examination
    parsePc,        \* which parsers have run on text
    serverDob,      \* extractDobFromOcrText(text) result
    clientDob,      \* extractBirthDate(text) result
    CURRENT_YEAR,   \* lib/validation: new Date().getFullYear() at module load
    vPc,            \* "idle" until validateIDData has been called, then "done"
    holder,         \* the birth date printed on the card that was read
    idData,         \* the IDData passed to validateIDData
    vResult,        \* the ValidationResult returned
    vLibResult,     \* the result of the src/lib/validation.ts variant
    sreq,           \* POST /api/verify/start: each request's position and data
    users,          \* rows of the User table (their ids)
    challenges,     \* rows of the WebAuthnChallenge table, type "registration"
    clock,          \* Date.now() of the server, in minutes
    creq,           \* POST /api/verify/complete: each request's position and data
    credentials,    \* rows of the WebAuthnCredential table
    authKind,       \* which confirm handler and challenge store is deployed
    issued,         \* number of authentication challenges issued so far
    areq,           \* authentication confirm requests: position and data
    authChallenges, \* rows of the WebAuthnChallenge table, type "authentication"
    memChallenges,  \* lib/challenge-store: the entries of the challenges Map
    memTimers,      \* lib/challenge-store: the pending setTimeout callbacks
    credCounter,    \* the stored signature counter of the registered passkey
    browserInstance,      \* opencvPreprocessPuppeteer: the Browser, 0 for null
    browserLaunchPromise, \* "none" for null, else the promise's state
    connected,            \* the browsers that are launched and connected
    launches,             \* number of puppeteer.launch calls so far
    pagePool,             \* the pagePool array
    pagesInUse,           \* the pagesInUse Set
    closedPages,          \* pages for which isClosed() is true
    created,              \* number of pages browser.newPage() has made
    preq,                 \* preprocessing requests: position and locals
    worker,               \* ocr/recognize: generalWorker and datesWorker, 0 for null
    workerInitPromise,    \* generalWorkerInitPromise and datesWorkerInitPromise
    workerInits,          \* number of createWorker calls so far, per worker
    openCvReadyPromise,   \* lib/opencvPreprocess: "none" for null, else its state
    scriptLoads,          \* number of opencv.js script tags appended so far
    closedBrowsers,       \* the browsers that have disconnected
    call,                 \* callers of the lazy getters: position and outcome
    ocrWorker,            \* lib/ocr: the client worker, 0 for null
    whitelist,            \* the worker's tessedit_char_whitelist, "" when none is set
    pageseg,              \* the worker's tessedit_pageseg_mode
    ocrPc,                \* extractIDData: "idle", "prepare", "set", "recognize", "done"
    ocrPass,              \* extractIDData: index in Passes of the current pass
    fieldResults,         \* extractIDData: the OcrFieldResult of each field so far
    failedFields,         \* fields whose recognition call threw in this run
    ocrResult,            \* what extractIDData returned
    runs,                 \* number of extractIDData runs started
    isoDate,              \* dobExtractor: the string isValidDate is called with
    dateValid,             \* what isValidDate returned: "none", "true" or "false"
    ageBirth,   \* dobExtractor: the birthDate calculateAge is called with
    ageNow,   \* what calculateAge returned on the evaluation date
    agePrev,   \* what calculateAge returned the day before
    ageDays,   \* days the evaluation date has advanced
    dlRaw,   \* lib/ocr: the raw text parseOntarioDlNumber is called with
    dlPc,   \* "idle", "parsed" or "reparsed"
    dlOut,   \* what parseOntarioDlNumber returned, <<>> for null
    dlAgain,   \* what it returned for its own result
    cropImg,   \* opencvPreprocess: width and height of the loaded image
    cropRegion,   \* the region passed to cropDataUrlRegionToPng, in halves
    cropPc,   \* "idle", "drawn" or "failed"
    cropSrc,   \* the source rectangle sx, sy, sw, sh given to drawImage
    pgStep,   \* verify page: currentStep
    pgIndex,   \* stepIndex
    pgIdImage,   \* idImage, or "null"
    pgIdData,   \* idData, or "null"
    pgValidation,   \* validationResult: "null", "valid" or "invalid"
    pgSelfie,   \* selfieImage, or "null"
    pgFace,   \* faceMatchResult: "null", "match" or "nomatch"
    pgError,   \* errorMessage, or "null"
    pgFailed,   \* failedStep, or "null"
    pgCred,   \* credentialId, or "null"
    pgStatus,   \* webauthnStatus
    pgJobs,   \* the handlers waiting at an await, each with the values its closure holds
    pgVia,   \* the handler that ran last; "await" for the part of a handler after an await
    pgGates,   \* how many of the four gates have been passed, in their order
    quadPoints,   \* opencvPreprocess: the four points getQuadFromContour reads from approx
    quadPc,   \* "idle" or "ordered"
    quadOut   \* what orderQuadPoints returned: tl, tr, br, bl

envVars == <<today, tz>>
parseVars == <<text, parsePc, serverDob, clientDob>>
valVars == <<CURRENT_YEAR, vPc, holder, idData, vResult, vLibResult>>
startVars == <<sreq, users, challenges>>
completeVars == <<clock, creq, credentials>>
authVars == <<authKind, issued, areq, authChallenges, memChallenges, memTimers, credCounter>>
browserVars == <<browserInstance, browserLaunchPromise, connected, launches>>
pageVars == <<pagePool, pagesInUse, closedPages, created>>
poolVars == <<browserVars, pageVars, preq>>
singleVars == <<worker, workerInitPromise, workerInits, openCvReadyPromise, scriptLoads, closedBrowsers, call>>
ocrVars == <<ocrWorker, whitelist, pageseg, ocrPc, ocrPass, fieldResults, failedFields, ocrResult, runs>>
dateVars == <<isoDate, dateValid>>
ageVars == <<ageBirth, ageNow, agePrev, ageDays>>
dlVars == <<dlRaw, dlPc, dlOut, dlAgain>>
cropVars == <<cropImg, cropRegion, cropPc, cropSrc>>
verifyVars == <<pgStep, pgIndex, pgIdImage, pgIdData, pgValidation, pgSelfie, pgFace, pgError, pgFailed, pgCred, pgStatus, pgJobs, pgVia, pgGates>>
quadVars == <<quadPoints, quadPc, quadOut>>
laterVars == <<authVars, poolVars, singleVars, ocrVars, dateVars, ageVars, dlVars, cropVars, verifyVars, quadVars>>
vars == <<envVars, parseVars, valVars, startVars, completeVars, laterVars>>

----------------------------------------------------------------------------
(* Bounds of the model *)

\* longest raw text, in tokens
MaxTokens == 2

----------------------------------------------------------------------------
(* Calendar and JavaScript Date *)

NULL == [y |-> 0, m |-> 0, d |-> 0]

Iso(y, m, d) == [y |-> y, m |-> m, d |-> d]

IsLeap(y) == (y % 4 = 0 /\ y % 100 # 0) \/ y % 400 = 0

DaysInMonth(y, m) ==
    IF m = 2 THEN (IF IsLeap(y) THEN 29 ELSE 28)
    ELSE IF m \in {4, 6, 9, 11} THEN 30 ELSE 31

\* a real calendar date
IsRealDate(dt) ==
    /\ dt.m \in 1..12
    /\ dt.d >= 1
    /\ dt.d <= DaysInMonth(dt.y, dt.m)

\* new Date("YYYY-MM-DD") on V8: NaN unless month is 01..12 and day 01..31
DateParses(iso) == iso # NULL /\ iso.m \in 1..12 /\ iso.d \in 1..31

\* the UTC calendar date of new Date(iso): a day past the month's end rolls over
UtcDate(iso) ==
    IF iso.d <= DaysInMonth(iso.y, iso.m) THEN iso
    ELSE IF iso.m = 12
         THEN Iso(iso.y + 1, 1, iso.d - DaysInMonth(iso.y, iso.m))
         ELSE Iso(iso.y, iso.m + 1, iso.d - DaysInMonth(iso.y, iso.m))

PrevDay(dt) ==
    IF dt.d > 1 THEN Iso(dt.y, dt.m, dt.d - 1)
    ELSE IF dt.m > 1 THEN Iso(dt.y, dt.m - 1, DaysInMonth(dt.y, dt.m - 1))
    ELSE Iso(dt.y - 1, 12, 31)

\* getFullYear/getMonth+1/getDate of new Date(iso): UTC midnight read in host
\* local time is the previous calendar day west of UTC
LocalDate(iso, z) == IF z < 0 THEN PrevDay(UtcDate(iso)) ELSE UtcDate(iso)

\* dt1 is an earlier calendar date than dt2
DayBefore(dt1, dt2) ==
    \/ dt1.y < dt2.y
    \/ dt1.y = dt2.y /\ dt1.m < dt2.m
    \/ dt1.y = dt2.y /\ dt1.m = dt2.m /\ dt1.d < dt2.d

\* whole years from birth to now, counted on the calendar
ExactAge(birth, now) ==
    (now.y - birth.y)
      - (IF now.m < birth.m \/ (now.m = birth.m /\ now.d < birth.d) THEN 1 ELSE 0)

----------------------------------------------------------------------------
(* Raw OCR text *)

Label(s) == [k |-> "label", s |-> s, yf |-> FALSE, y |-> 0, p |-> 0, q |-> 0, pw |-> 0, qw |-> 0]

\* a line of other text: no digits, no label word
Pad == [k |-> "pad", s |-> "", yf |-> FALSE, y |-> 0, p |-> 0, q |-> 0, pw |-> 0, qw |-> 0]

\* a JSON value that is truthy and not a string: a number, an object, an
\* array or true
NotAString == [k |-> "nonstring", s |-> "", yf |-> FALSE, y |-> 0, p |-> 0, q |-> 0, pw |-> 0, qw |-> 0]

\* a rawOcrText that is not a string
NonStringText == <<NotAString>>

\* typeof txt === "string"
IsString(txt) == \A i \in 1..Len(txt) : txt[i].k # "nonstring"

\* a date printed year first (y/p/q) with fields of pw and qw digits
Ymd(y, p, q, pw, qw) ==
    [k |-> "date", s |-> "", yf |-> TRUE, y |-> y, p |-> p, q |-> q, pw |-> pw, qw |-> qw]

\* a date printed year last (p/q/y)
Pqy(p, q, y, pw, qw) ==
    [k |-> "date", s |-> "", yf |-> FALSE, y |-> y, p |-> p, q |-> q, pw |-> pw, qw |-> qw]

DateTokens ==
    { Ymd(1990, 5, 14, 2, 2),     \* 1990/05/14
      Ymd(1990, 5, 14, 1, 2),     \* 1990/5/14
      Ymd(1990, 2, 30, 2, 2),     \* 1990/02/30, no real date
      Ymd(2005, 6, 1, 2, 2),      \* 2005/06/01, 19 years before 2024-06-01
      Ymd(2028, 1, 1, 2, 2),      \* 2028/01/01, an expiry date
      Pqy(5, 14, 1990, 2, 2) }    \* 05/14/1990

Tokens == { Label("DOB"), Label("EXP"), Pad } \cup DateTokens

Texts == UNION { [1..n -> Tokens] : n \in 0..MaxTokens }

\* characters of a label word: DOB and EXP have three, VALID five
LabelLength(word) == IF word = "VALID" THEN 5 ELSE 3

\* printed width of a token, its trailing blank included
Width(t) ==
    IF t.k = "label" THEN LabelLength(t.s) + 1
    ELSE IF t.k = "pad" THEN 31
    ELSE 4 + 1 + t.pw + 1 + t.qw + 1

RECURSIVE Offset(_, _)
\* character index at which token i of txt starts
Offset(txt, i) == IF i = 1 THEN 0 ELSE Offset(txt, i - 1) + Width(txt[i - 1])

\* txt.length
TextLength(txt) == IF Len(txt) = 0 THEN 0 ELSE Offset(txt, Len(txt)) + Width(txt[Len(txt)])

\* a nullable number: <<>> is null or undefined, <<n>> is the number n
NoNum == <<>>

Num(n) == <<n>>

IsNum(a) == a # <<>>

\* least element of a non-empty set of numbers
Min(S) == CHOOSE x \in S : \A z \in S : x <= z

----------------------------------------------------------------------------
(* Server: dobExtractor *)

\* isValidDate(isoDate)
isValidDate(iso, z) ==
    /\ DateParses(iso)
    /\ LocalDate(iso, z) = iso

\* calculateAge(birthDate), with today = new Date(); null for an invalid Date
calculateAge(iso, now, z) ==
    IF ~DateParses(iso) THEN NoNum
    ELSE LET birth == LocalDate(iso, z)
             age == now.y - birth.y
             monthDiff == now.m - birth.m
         IN IF monthDiff < 0 \/ (monthDiff = 0 /\ now.d < birth.d)
            THEN Num(age - 1) ELSE Num(age)

\* isBirthPlausible(isoDate)
isBirthPlausible(iso, now, z) ==
    LET age == calculateAge(iso, now, z)
    IN IsNum(age) /\ age[1] >= 14 /\ age[1] <= 100

\* positions where (?:DOB|BIRTH|DATE OF BIRTH)\s*[:\-]?\s* is followed at once
\* by a date of the given shape with two-digit month and day fields
LabeledMatches(txt, yearFirst) ==
    { i \in 1..(Len(txt) - 1) :
        /\ txt[i].k = "label" /\ txt[i].s = "DOB"
        /\ txt[i + 1].k = "date" /\ txt[i + 1].yf = yearFirst
        /\ txt[i + 1].pw = 2 /\ txt[i + 1].qw = 2 }

\* the first non-null of two results
OrElse(a, b) == IF a # NULL THEN a ELSE b

\* the date string `${year}-${month}-${day}` built from a year-first match
YearFirstIso(t) == Iso(t.y, t.p, t.q)

\* the candidate passes the checks of its branch: isValidDate, and for the
\* birth-year patterns isBirthPlausible too
Accepts(iso, now, z, plausible) ==
    isValidDate(iso, z) /\ (plausible => isBirthPlausible(iso, now, z))

\* the candidate, or null when its checks fail
IfAccepted(iso, now, z, plausible) ==
    IF Accepts(iso, now, z, plausible) THEN iso ELSE NULL

\* a year-last match: `${year}-${first}-${second}` (MM/DD) is tried first,
\* then `${year}-${second}-${first}` (DD/MM)
YearLastIso(t, now, z, plausible) ==
    OrElse(IfAccepted(Iso(t.y, t.p, t.q), now, z, plausible),
           IfAccepted(Iso(t.y, t.q, t.p), now, z, plausible))

\* extractLabeledDob(text).isoDate, NULL for null: text.match gives the first
\* match of each pattern.  Patterns two and three find the same first match
\* for the DOB label, so the third changes nothing.
extractLabeledDob(txt, now, z) ==
    OrElse(IF LabeledMatches(txt, TRUE) = {} THEN NULL
           ELSE IfAccepted(YearFirstIso(txt[Min(LabeledMatches(txt, TRUE)) + 1]),
                           now, z, FALSE),
           IF LabeledMatches(txt, FALSE) = {} THEN NULL
           ELSE YearLastIso(txt[Min(LabeledMatches(txt, FALSE)) + 1], now, z, FALSE))

\* 19[4-9]\d|200\d|2010
BirthYearWindow == 1940..2010

\* positions of dates matched by the birth-year patterns of extractBirthYearDate
BirthYearMatches(txt, yearFirst) ==
    { i \in 1..Len(txt) :
        /\ txt[i].k = "date" /\ txt[i].yf = yearFirst
        /\ txt[i].y \in BirthYearWindow
        /\ txt[i].pw = 2 /\ txt[i].qw = 2 }

\* extractBirthYearDate(text).isoDate: exec gives the first match of each
\* pattern, and no later match is looked at
extractBirthYearDate(txt, now, z) ==
    OrElse(IF BirthYearMatches(txt, TRUE) = {} THEN NULL
           ELSE IfAccepted(YearFirstIso(txt[Min(BirthYearMatches(txt, TRUE))]),
                           now, z, TRUE),
           IF BirthYearMatches(txt, FALSE) = {} THEN NULL
           ELSE YearLastIso(txt[Min(BirthYearMatches(txt, FALSE))], now, z, TRUE))

\* the DobExtractionResult extractDobFromOcrText starts from
NoDob == [birthDate |-> NULL, age |-> NoNum, isOver19 |-> FALSE]

\* the result for birth date bd and its age
DobResult(bd, age) ==
    [birthDate |-> bd, age |-> age, isOver19 |-> (IsNum(age) /\ age[1] >= 19)]

\* extractLabeledDob calls text.match(pattern): a value that is not a string
\* has no match method and the call throws a TypeError
DobParserThrows(txt) == ~IsString(txt)

\* lines 39-42: the age is computed when a birth date was found
DobResultFor(bd, now, z) ==
    DobResult(bd, IF bd # NULL THEN calculateAge(bd, now, z) ELSE NoNum)

\* extractDobFromOcrText(ocrText): the labeled patterns first, then the
\* birth-year heuristic
extractDobFromOcrText(txt, now, z) ==
    DobResultFor(OrElse(extractLabeledDob(txt, now, z),
                        extractBirthYearDate(txt, now, z)), now, z)

----------------------------------------------------------------------------
(* Client: lib/ocr.ts extractBirthDate *)

CONTEXT_BEFORE == 30

CONTEXT_AFTER == 15

\* dates matched by ymdRegex or dmyRegex: year 19\d{2}|20[0-2]\d, one- or
\* two-digit fields
ClientMatches(txt) ==
    { i \in 1..Len(txt) : txt[i].k = "date" /\ txt[i].y \in 1900..2029 }

\* place of match i in the dates array: every ymd match, then every dmy match
DatesIndex(txt, i) == IF txt[i].yf THEN i ELSE Len(txt) + i

\* the date string pushed for match i: dmy matches are read day first
ClientDate(t) == IF t.yf THEN Iso(t.y, t.p, t.q) ELSE Iso(t.y, t.q, t.p)

\* label words inside text.substring(max(0, index - 30), index + 15)
ContextLabels(txt, i) ==
    LET lo == IF Offset(txt, i) < CONTEXT_BEFORE THEN 0
              ELSE Offset(txt, i) - CONTEXT_BEFORE
        hi == Offset(txt, i) + CONTEXT_AFTER
    IN { txt[j].s : j \in { n \in 1..Len(txt) :
                              /\ txt[n].k = "label"
                              /\ Offset(txt, n) >= lo
                              /\ Offset(txt, n) + LabelLength(txt[n].s) <= hi } }

\* the first entry of the dates array among the matches in S
FirstOf(txt, S) ==
    CHOOSE i \in S : \A j \in S : DatesIndex(txt, i) <= DatesIndex(txt, j)

\* extractBirthDate(text), NULL for null
extractBirthDate(txt, now) ==
    LET currentYear == now.y
        all == ClientMatches(txt)
        old == { i \in all : txt[i].y <= currentYear - 16 }
        p1 == { i \in old : "DOB" \in ContextLabels(txt, i)
                            /\ "EXP" \notin ContextLabels(txt, i) }
        p2 == { i \in old : "EXP" \notin ContextLabels(txt, i)
                            /\ "VALID" \notin ContextLabels(txt, i) }
        validDates == { i \in old : txt[i].y >= 1920 }
        oldest == { i \in validDates : \A j \in validDates : txt[i].y <= txt[j].y }
    IN IF p1 # {} THEN ClientDate(txt[FirstOf(txt, p1)])
       ELSE IF p2 # {} THEN ClientDate(txt[FirstOf(txt, p2)])
       ELSE IF validDates # {} THEN ClientDate(txt[FirstOf(txt, oldest)])
       ELSE NULL

----------------------------------------------------------------------------
(* Environment *)

EvalDays ==
    { Iso(2024, 5, 31), Iso(2024, 6, 1), Iso(2024, 12, 31), Iso(2025, 1, 1) }

TzSigns == {-1, 0, 1}

InitEnv ==
    /\ today \in EvalDays
    /\ tz \in TzSigns

----------------------------------------------------------------------------
(* Policy evaluator: lib/validation validateIDData *)

MIN_BIRTH_YEAR == 1900

\* MAX_BIRTH_YEAR = CURRENT_YEAR - 19
MAX_BIRTH_YEAR(cy) == cy - 19

\* calculateAge(birthYear) of lib/validation: CURRENT_YEAR - birthYear
calculateAgeFromYear(birthYear, cy) == cy - birthYear

\* expiry < today, where expiry = new Date(data.expiryDate) is a UTC midnight
\* and today is the host's local midnight (setHours(0, 0, 0, 0)): an earlier
\* calendar day is always before it; the same calendar day is before it only
\* west of UTC, where local midnight falls after UTC midnight.  A string that
\* does not parse gives NaN, and NaN < today is false.
ExpiryBeforeToday(expiryDate, now, z) ==
    /\ DateParses(expiryDate)
    /\ \/ DayBefore(UtcDate(expiryDate), now)
       \/ UtcDate(expiryDate) = now /\ z < 0

\* the errors pushed for the birth year, in order
BirthYearErrors(data, cy) ==
    IF data.birthYear = 0 THEN <<"NO_BIRTH_YEAR">>
    ELSE IF data.birthYear < MIN_BIRTH_YEAR THEN <<"INVALID_BIRTH_YEAR">>
    ELSE IF data.birthYear > MAX_BIRTH_YEAR(cy) THEN <<"UNDER_AGE">>
    ELSE IF ~(calculateAgeFromYear(data.birthYear, cy) >= 19) THEN <<"UNDER_AGE">>
    ELSE <<>>

\* age as validateIDData leaves it: null unless the birth year is in range
BirthYearAge(data, cy) ==
    IF data.birthYear = 0 \/ data.birthYear < MIN_BIRTH_YEAR
       \/ data.birthYear > MAX_BIRTH_YEAR(cy)
    THEN NoNum
    ELSE Num(calculateAgeFromYear(data.birthYear, cy))

\* an isValid that looks at the age alone
IsValidOf_AgeOnly(errors, isOver19, isExpired) ==
    isOver19

\* isValid = errors.length === 0 && isOver19 && !isExpired
IsValidOf(errors, isOver19, isExpired) ==
    errors = <<>> /\ isOver19 /\ ~isExpired

\* validateIDData(data) of the version with expiry checking
validateIDData(data, cy, now, z) ==
    LET age == BirthYearAge(data, cy)
        isOver19 == IsNum(age) /\ age[1] >= 19
        isExpired == data.expiryDate # NULL
                     /\ ExpiryBeforeToday(data.expiryDate, now, z)
        errors == BirthYearErrors(data, cy)
                  \o (IF isExpired THEN <<"ID_EXPIRED">> ELSE <<>>)
        warnings == (IF data.confidence < 20 THEN <<"LOW_CONFIDENCE">> ELSE <<>>)
                    \o (IF ~data.hasIdNumber THEN <<"NO_ID_NUMBER">> ELSE <<>>)
                    \o (IF data.expiryDate = NULL THEN <<"NO_EXPIRY_DATE">> ELSE <<>>)
    IN [isValid |-> IsValidOf(errors, isOver19, isExpired),
        age |-> age,
        isOver19 |-> isOver19,
        isExpired |-> isExpired,
        expiryDate |-> data.expiryDate,
        errors |-> errors,
        warnings |-> warnings]

\* validateIDData(data) of src/lib/validation.ts: low confidence is an error
\* below 40, the expiry date is not looked at and the result has no isExpired
validateIDDataLib(data, cy) ==
    LET age == BirthYearAge(data, cy)
        isOver19 == IsNum(age) /\ age[1] >= 19
        errors == (IF data.confidence < 40 THEN <<"LOW_CONFIDENCE">> ELSE <<>>)
                  \o BirthYearErrors(data, cy)
        warnings == (IF ~data.hasName THEN <<"NO_NAME">> ELSE <<>>)
                    \o (IF ~data.hasIdNumber THEN <<"NO_ID_NUMBER">> ELSE <<>>)
    IN [isValid |-> (errors = <<>> /\ data.confidence >= 40 /\ isOver19),
        age |-> age,
        isOver19 |-> isOver19,
        errors |-> errors,
        warnings |-> warnings]

\* birth dates printed on the cards that are read; NULL when the birth year
\* could not be read
HolderBirths ==
    { NULL, Iso(1890, 1, 1), Iso(1990, 5, 14), Iso(2005, 6, 1), Iso(2006, 1, 1) }

ExpiryDates ==
    { NULL, Iso(2023, 1, 1), Iso(2024, 5, 31), Iso(2024, 6, 1), Iso(2028, 1, 1) }

Confidences == {10, 30, 50}

NoData ==
    [hasName |-> FALSE, hasIdNumber |-> FALSE, birthYear |-> 0,
     expiryDate |-> NULL, confidence |-> 0]

NoResult ==
    [isValid |-> FALSE, age |-> NoNum, isOver19 |-> FALSE, isExpired |-> FALSE,
     expiryDate |-> NULL, errors |-> <<>>, warnings |-> <<>>]

NoLibResult ==
    [isValid |-> FALSE, age |-> NoNum, isOver19 |-> FALSE,
     errors |-> <<>>, warnings |-> <<>>]

----------------------------------------------------------------------------
(* POST /api/verify/start *)

\* a claimed birthDate that is a non-empty string not of the form YYYY-MM-DD
Malformed == [y |-> 0, m |-> 0, d |-> 1]

\* /^\d{4}-\d{2}-\d{2}$/.test(birthDate)
WellFormed(bd) == bd # NULL /\ bd # Malformed

\* a request body: rawOcrText is the raw text (<<>> when absent or empty),
\* birthDate NULL when absent, age NoNum when not a number
Body(raw, bd, age, photo) ==
    [rawOcrText |-> raw, birthDate |-> bd, age |-> age, id_photo |-> photo]

\* rawOcrText && birthDate && typeof age === "number"
FastPath(body) ==
    /\ (~IsString(body.rawOcrText) \/ TextLength(body.rawOcrText) > 0)
    /\ body.birthDate # NULL
    /\ IsNum(body.age)

\* id_photo && typeof id_photo === "string", tried when the fast path is not taken
SlowPath(body) == ~FastPath(body) /\ body.id_photo

\* a clientDobValid that checks the format and not the claimed age
clientDobValid_FormatOnly(body) ==
    /\ body.birthDate # NULL
    /\ WellFormed(body.birthDate)

\* clientDobValid = birthDate && /^\d{4}-\d{2}-\d{2}$/.test(birthDate) && age >= 19
clientDobValid(body) ==
    /\ body.birthDate # NULL
    /\ WellFormed(body.birthDate)
    /\ body.age[1] >= 19

\* a response: ocr_passed and age_passed are "true", "false" or "absent";
\* age, birthDate, userId, challenge are null-like when the key is absent
Response(status, ocr, agep, age, bd, uid, ch) ==
    [status |-> status, ocr_passed |-> ocr, age_passed |-> agep, age |-> age,
     birthDate |-> bd, userId |-> uid, challenge |-> ch,
     registrationOptions |-> (ch # 0)]

NoResponse == Response(0, "absent", "absent", NoNum, NULL, 0, 0)

\* { ocr_passed: false, age_passed: false, error } with status 200
RejectBoth == Response(200, "false", "false", NoNum, NULL, 0, 0)

\* { error } with an error status
ErrorResponse(status) == Response(status, "absent", "absent", NoNum, NULL, 0, 0)

\* a fast path that prefers the client's claim to the server's extraction
FastFinal_ClientFirst(body, dob) ==
    IF clientDobValid(body)
    THEN [reject |-> FALSE, finalBirthDate |-> body.birthDate, finalAge |-> body.age]
    ELSE IF dob.birthDate # NULL
    THEN [reject |-> FALSE, finalBirthDate |-> dob.birthDate, finalAge |-> dob.age]
    ELSE [reject |-> TRUE, finalBirthDate |-> body.birthDate, finalAge |-> body.age]

\* the fast path's choice of finalBirthDate and finalAge; reject is the
\* "both failed" return
FastFinal(body, dob) ==
    IF dob.birthDate # NULL
    THEN [reject |-> FALSE, finalBirthDate |-> dob.birthDate, finalAge |-> dob.age]
    ELSE IF clientDobValid(body)
    THEN [reject |-> FALSE, finalBirthDate |-> body.birthDate, finalAge |-> body.age]
    ELSE [reject |-> TRUE, finalBirthDate |-> body.birthDate, finalAge |-> body.age]

\* !finalBirthDate || finalAge === null || finalAge === undefined
NoBirthDate(finalBirthDate, finalAge) == finalBirthDate = NULL \/ ~IsNum(finalAge)

\* an age gate that asks for a birth date and an age but not for 19 years
AgeGatePasses_AnyAge(finalBirthDate, finalAge) ==
    ~NoBirthDate(finalBirthDate, finalAge)

\* the age gate passes: a birth date, an age, and finalAge >= 19
AgeGatePasses(finalBirthDate, finalAge) ==
    /\ ~NoBirthDate(finalBirthDate, finalAge)
    /\ finalAge[1] >= 19

\* the response of the age gate when it does not pass
AgeGateResponse(finalBirthDate, finalAge, ocrPassed) ==
    IF NoBirthDate(finalBirthDate, finalAge)
    THEN Response(200, IF ocrPassed THEN "true" ELSE "false", "false", NoNum, NULL, 0, 0)
    ELSE Response(200, "true", "false", finalAge, NULL, 0, 0)

\* the success response
SuccessResponse(finalBirthDate, finalAge, uid, ch) ==
    Response(200, "true", "true", finalAge, finalBirthDate, uid, ch)

\* ocrPassed = ocrText.length > 20
OcrPassed(ocrText) == TextLength(ocrText) > 20

\* the requests of the model: two, so that two submissions of one raw text
\* can be compared; the second is handled after the first has been answered
StartReqs == {1, 2}

\* a request not yet received
IdleStart ==
    [pc |-> "idle", body |-> Body(<<>>, NULL, NoNum, FALSE),
     finalBirthDate |-> NULL, finalAge |-> NoNum,
     userId |-> 0, challenge |-> 0, resp |-> NoResponse]

\* birth dates and ages a client claims
ClaimedBirthDates == { Iso(1990, 5, 14), Iso(2020, 1, 1), Malformed }

ClaimedAges == { 17, 30 }

\* the raw texts submitted to the handler
RawTokens ==
    { Label("DOB"), Ymd(1990, 5, 14, 2, 2), Ymd(1990, 5, 14, 1, 2), Ymd(2005, 6, 1, 2, 2) }

RawTexts == UNION { [1..n -> RawTokens] : n \in 0..MaxTokens }

\* the bodies posted: fast-path bodies with every claim, a body with a photo
\* only, one with text and photo but no claim, one with text and birth date
\* but no age, an empty one, and a fast-path body whose rawOcrText is not a
\* string
Bodies(raw) ==
    { Body(raw, bd, Num(a), FALSE) : bd \in ClaimedBirthDates, a \in ClaimedAges }
    \cup { Body(<<>>, NULL, NoNum, TRUE),
           Body(raw, NULL, NoNum, TRUE),
           Body(raw, Iso(1990, 5, 14), NoNum, FALSE),
           Body(<<>>, NULL, NoNum, FALSE),
           Body(NonStringText, Iso(1990, 5, 14), Num(30), FALSE) }

----------------------------------------------------------------------------
(* POST /api/verify/complete: requests, rows and responses *)

\* minutes a stored challenge stays valid
CHALLENGE_TTL == 5

MaxClock == 5

CompleteReqs == {1, 2}

\* what an authenticator returns: the credential it made and the challenge
\* it signed
Attestation(id, ch) == [id |-> id, challenge |-> ch]

NoAttestation == Attestation("", 0)

Attestations == { Attestation(id, ch) : id \in {"credA", "credB"}, ch \in {1, 2} }

ChallengeRow(uid, ch, exp) == [userId |-> uid, challenge |-> ch, expiresAt |-> exp]

NoRow == ChallengeRow(0, 0, 0)

CResponse(status, success, credentialId) ==
    [status |-> status, success |-> success, credentialIdBase64 |-> credentialId]

NoCResponse == CResponse(0, FALSE, "")

CError(status) == CResponse(status, FALSE, "")

IdleComplete ==
    [pc |-> "idle", userId |-> 0, attestationResponse |-> NoAttestation,
     challengeRecord |-> NoRow, resp |-> NoCResponse]

\* findFirst: the unexpired registration challenges of the user (verify/start
\* makes a new user for every challenge, so there is at most one)
ValidChallenges(uid) ==
    { c \in challenges : c.userId = uid /\ c.expiresAt > clock }

\* verifyRegistrationResponse: the attestation signs the expected challenge
verified(att, expectedChallenge) == att.challenge = expectedChallenge

----------------------------------------------------------------------------
(* Passkey authentication: challenge stores and confirm handlers *)

\* the deployed pair of start and confirm handlers: /api/auth/start with
\* /api/auth/verify on the database; the in-memory store keyed by passkey_id
\* (passkey/confirm lines 7-72); the in-memory store keyed by the challenge
\* (passkey/confirm lines 78-139)
AuthKinds == {"db", "memById", "memByChallenge"}

MaxIssued == 2

AuthReqs == {1, 2}

\* the one registered passkey and an id no credential has
Passkeys == {"pk1", "pk9"}

\* an assertion: the credential that signed, the challenge in clientDataJSON,
\* the authenticator's signature counter, and whether the signature is good
Assertion(id, ch, counter, signed) ==
    [id |-> id, challenge |-> ch, counter |-> counter, signed |-> signed]

NoAssertion == Assertion("", 0, 0, FALSE)

Assertions ==
    { Assertion(id, ch, n, sg) :
        id \in Passkeys, ch \in 1..MaxIssued, n \in {0, 1}, sg \in BOOLEAN }

AuthRow(ch, exp) == [challenge |-> ch, expiresAt |-> exp]

\* an entry of the challenges Map
MemEntry(id, value) == [id |-> id, value |-> value]

\* a pending setTimeout(() => challenges.delete(id), 5 * 60 * 1000)
MemTimer(id, at) == [id |-> id, at |-> at]

\* challenges.set(id, value)
MapSet(map, id, value) == { e \in map : e.id # id } \cup { MemEntry(id, value) }

\* challenges.delete(id)
MapDelete(map, id) == { e \in map : e.id # id }

\* challenges.get(id) as a set: empty for undefined
MapGet(map, id) == { e.value : e \in { x \in map : x.id = id } }

AResponse(status, isVerified) == [status |-> status, verified |-> isVerified]

NoAResponse == AResponse(0, FALSE)

IdleAuth ==
    [pc |-> "idle", passkey_id |-> "", assertionResponse |-> NoAssertion,
     expectedChallenge |-> 0, resp |-> NoAResponse]

\* verifyAuthenticationResponse: throws when the challenge is not the
\* expected one or the counter did not advance, answers verified: false for
\* a bad signature
verifyAuthentication(att, expectedChallenge, storedCounter) ==
    IF att.challenge # expectedChallenge THEN "throws"
    ELSE IF (att.counter > 0 \/ storedCounter > 0) /\ att.counter <= storedCounter
    THEN "throws"
    ELSE IF ~att.signed THEN "unverified"
    ELSE "verified"

\* the key under which a confirm request looks its challenge up in the Map
MemKey(kind, req) ==
    IF kind = "memById" THEN <<"id", req.passkey_id>>
    ELSE <<"challenge", req.assertionResponse.challenge>>

\* the unexpired authentication rows with this challenge value
ValidAuthRows(ch) ==
    { c \in authChallenges : c.challenge = ch /\ c.expiresAt > clock }

----------------------------------------------------------------------------
(* Server preprocessing: the headless browser and its page pool *)

MAX_POOL_SIZE == 3

PoolReqs == 1..4

\* the locals of one preprocessIdDocumentPuppeteer call.  page is the page
\* held by acquirePage or by the caller (0 for none); loadEval and loadTimer
\* are the OpenCV-load evaluate and its setTimeout inside acquirePage;
\* workEval and workTimer are the preprocessing evaluate and its setTimeout.
\* An evaluate is "none", "pending", "fulfilled" or "rejected"; a timer is
\* "none", "armed", "cleared" or "fired".
IdlePre ==
    [pc |-> "idle", page |-> 0, loadEval |-> "none", loadTimer |-> "none",
     workEval |-> "none", workTimer |-> "none", result |-> "none"]

\* pagePool.pop() until a page that is not closed comes up: the pool that
\* is left, and the page found (0 when the pool ran empty)
RECURSIVE PopOpen(_, _)
PopOpen(pool, closed) ==
    IF Len(pool) = 0 THEN [pool |-> pool, page |-> 0]
    ELSE IF pool[Len(pool)] \notin closed
    THEN [pool |-> SubSeq(pool, 1, Len(pool) - 1), page |-> pool[Len(pool)]]
    ELSE PopOpen(SubSeq(pool, 1, Len(pool) - 1), closed)

\* the elements of a sequence
Range(seq) == { seq[k] : k \in 1..Len(seq) }

----------------------------------------------------------------------------
(* Lazily initialised singletons: browser, Tesseract workers, OpenCV.js *)

\* number of concurrent callers of the lazy getters
MaxCallers == 4

SingleCallers == 1..MaxCallers

\* the two server-side Tesseract workers
Workers == {"general", "dates"}

\* what a caller asks for: getBrowser, getGeneralWorker, getDatesWorker,
\* ensureOpenCvReady
Targets == {"browser", "general", "dates", "opencv"}

\* a caller that has not called yet; how is "started" for the caller that
\* began the initialisation, "shared" for one that received the in-flight
\* promise, "cached" for one that found the instance or a fulfilled promise,
\* "late" for one that received a promise that had already rejected; init
\* numbers the initialisation the caller awaits, 0 when it awaits none
IdleCall ==
    [pc |-> "idle", target |-> "browser", how |-> "none", init |-> 0, outcome |-> "none", got |-> 0]

\* getBrowser launches: no connected instance and no launch promise
MustLaunch_IgnoringPromise(inst, promise, conn) ==
    ~(inst # 0 /\ inst \in conn)

MustLaunch(inst, promise, conn) ==
    ~(inst # 0 /\ inst \in conn) /\ promise = "none"

\* getGeneralWorker / getDatesWorker initialise: no worker and no promise
MustInit(w, promise) ==
    w = 0 /\ promise = "none"

\* every caller awaiting target t resumes with the given outcome
Resume(t, outcome, got) ==
    [c \in SingleCallers |->
        IF call[c].pc = "await" /\ call[c].target = t
        THEN [call[c] EXCEPT !.pc = "done", !.outcome = outcome, !.got = got]
        ELSE call[c]]

----------------------------------------------------------------------------
(* Client OCR: field passes on the shared Tesseract worker *)

\* number of extractIDData runs on one page load
MaxRuns == 2

\* the cropped fields, in the order extractIDData reads them
Fields == {"name", "dlNumber", "dob", "expiry"}

\* the recognition passes of one run: four field crops, then the whole card
Passes == <<"name", "dlNumber", "dob", "expiry", "full">>

\* what recognize() can read from a crop: nothing, or a text the field's
\* parser accepts, with Tesseract's confidence
Readings == { [text |-> "", confidence |-> 0], [text |-> "good", confidence |-> 90] }

\* parseNameFromCrop, parseOntarioDlNumber, parseYearFromDateLike and
\* parseIsoDate give null for an empty text
normalizedOf(reading) ==
    IF reading.text = "" THEN "null" ELSE "value"

\* a field that has not been read
NoFieldResult == [text |-> "none", confidence |-> 0, normalized |-> "none"]

\* the field result the specification describes for a failed recognition
EmptyFieldResult == [text |-> "", confidence |-> 0, normalized |-> "null"]

NoOcrResult == [success |-> "none", data |-> "none"]

\* Tesseract keeps every parameter until it is set again: setParameters
\* changes only the keys it is given. runFieldOcr sets the whitelist for
\* dlNumber, dob and expiry; the name pass and the full-card pass set the
\* page segmentation mode and leave tessedit_char_whitelist as it is
setWhitelist(pass, current) ==
    CASE pass = "dlNumber" -> "0123456789-"
      [] pass \in {"dob", "expiry"} -> "0123456789/-."
      [] OTHER -> current

setPageseg(pass) ==
    CASE pass = "name" -> "SPARSE_TEXT"
      [] pass = "full" -> "SINGLE_BLOCK"
      [] OTHER -> "SINGLE_LINE"

----------------------------------------------------------------------------
(* calculateAge as the evaluation date advances *)

\* days the evaluation date advances
MaxDays == 5

\* the calendar day after dt
NextDay(dt) ==
    IF dt.d < DaysInMonth(dt.y, dt.m) THEN Iso(dt.y, dt.m, dt.d + 1)
    ELSE IF dt.m < 12 THEN Iso(dt.y, dt.m + 1, 1)
    ELSE Iso(dt.y + 1, 1, 1)

\* birth dates whose age is followed
AgeBirths == { Iso(2000, 3, 1), Iso(2000, 6, 15), Iso(2005, 1, 1), Iso(2005, 12, 31) }

\* the days the walks start on, shortly before an anniversary
AgeStarts == { Iso(2024, 2, 27), Iso(2024, 6, 12), Iso(2024, 12, 29) }

----------------------------------------------------------------------------
(* lib/ocr parseOntarioDlNumber: strings are sequences of characters *)

\* digits.length !== 15
DL_DIGITS == 15

\* most digits in a raw text
MaxDigits == 17

DigitChars == <<"0", "1", "2", "3", "4", "5", "6", "7", "8", "9">>

\* \d
IsDigit(ch) == ch \in { DigitChars[k] : k \in 1..10 }

\* raw.replace(/[^\d]/g, "")
OnlyDigits(raw) == SelectSeq(raw, IsDigit)

\* a parser that formats the first 15 digits of any longer run as well
parseOntarioDlNumber_AtLeast(raw) ==
    LET digits == OnlyDigits(raw)
    IN IF Len(digits) < DL_DIGITS THEN <<>>
       ELSE SubSeq(digits, 1, 5) \o <<"-">> \o SubSeq(digits, 6, 10) \o <<"-">>
            \o SubSeq(digits, 11, 15)

\* parseOntarioDlNumber(raw), <<>> for null
parseOntarioDlNumber(raw) ==
    LET digits == OnlyDigits(raw)
    IN IF Len(digits) # DL_DIGITS THEN <<>>
       ELSE SubSeq(digits, 1, 5) \o <<"-">> \o SubSeq(digits, 6, 10) \o <<"-">>
            \o SubSeq(digits, 11, 15)

\* the k-th digit of the raw texts tried
DigitAt(k) == DigitChars[((k * 7) % 10) + 1]

\* places where a raw text may carry a character that is no digit: before
\* digit 1, 4, 6, 11 or 16
SepPlaces == {0, 3, 5, 10, 15}

\* the characters that are no digits: hyphen, blank, letter O
SepChars == {"-", " ", "O"}

\* the raw text of n digits from digit k on, with character ch at the places seps
RECURSIVE RawFrom(_, _, _, _)
RawFrom(k, n, seps, ch) ==
    IF k > n THEN (IF n \in seps THEN <<ch>> ELSE <<>>)
    ELSE (IF k - 1 \in seps THEN <<ch>> ELSE <<>>) \o <<DigitAt(k)>> \o RawFrom(k + 1, n, seps, ch)

RawNumbers ==
    { RawFrom(1, n, seps, ch) : n \in 0..MaxDigits, seps \in SUBSET SepPlaces, ch \in SepChars }

----------------------------------------------------------------------------
(* opencvPreprocess cropDataUrlRegionToPng: region components are fractions *)

\* region components are multiples of 1 / RegionDen
RegionDen == 2

\* largest image width and height, in pixels
MaxSide == 3

\* the components x, y, w, h in [-1, 2], as numerators over RegionDen
RegionParts == (0 - RegionDen)..(2 * RegionDen)

\* Math.floor(n / RegionDen * side)
FloorOf(n, side) == (n * side) \div RegionDen

\* Math.ceil(n / RegionDen * side)
CeilOf(n, side) == 0 - ((0 - n * side) \div RegionDen)

\* Math.max and Math.min
MathMax(a, b) == IF a >= b THEN a ELSE b

MathMin(a, b) == IF a <= b THEN a ELSE b

\* no rectangle yet
NoRect == [sx |-> 0, sy |-> 0, sw |-> 0, sh |-> 0]

\* lines 420-423: the source rectangle for region r in image img
SourceRect(r, img) ==
    LET sx == MathMax(0, FloorOf(r.x, img.width))
        sy == MathMax(0, FloorOf(r.y, img.height))
    IN [sx |-> sx, sy |-> sy,
        sw |-> MathMin(img.width - sx, CeilOf(r.w, img.width)),
        sh |-> MathMin(img.height - sy, CeilOf(r.h, img.height))]

----------------------------------------------------------------------------
(* app/verify/page.tsx: the verification page *)

\* handlers that may wait at an await at the same time
MaxJobs == 2

\* the ID photos and selfies a user can supply
IdPhotos == {"id1", "id2"}

SelfiePhotos == {"selfie1"}

\* a handler waiting at an await: what it waits for and what its closure holds
Job(kind, pc, id, selfie) == [kind |-> kind, pc |-> pc, id |-> id, selfie |-> selfie]

\* the extracted data of an ID photo
DataOf(id) == IF id = "id1" THEN "data1" ELSE "data2"

\* the Continue button of ValidationView and the test of handleValidationProceed
CanProceed_Always(validation) == validation # "null"

CanProceed(validation) == validation = "valid"

\* line 139: the images handleProceedToWebAuthn needs
MissingImages(id, selfie) == id = "null" \/ selfie = "null"

\* line 204: the server's verdict
ServerPassed(result) == result.ocr_passed /\ result.age_passed

\* the four gates in their order; a gate counts when the ones before it have
Gate(name) ==
    CASE name = "isValid" -> 1
      [] name = "isMatch" -> 2
      [] name = "verdict" -> 3
      [] name = "complete" -> 4

Passed(gates, name) == IF gates = Gate(name) - 1 THEN Gate(name) ELSE gates

----------------------------------------------------------------------------
(* opencvPreprocess orderQuadPoints: corners by coordinate sums and differences *)

\* pixel coordinates run from 0 to MaxCoord
MaxCoord == 3

Point(x, y) == [x |-> x, y |-> y]

GridPoints == { Point(x, y) : x \in 0..MaxCoord, y \in 0..MaxCoord }

\* Math.min(...values) and Math.max(...values)
MinOf(values) ==
    CHOOSE v \in Range(values) : \A w \in Range(values) : v <= w

MaxOf(values) ==
    CHOOSE v \in Range(values) : \A w \in Range(values) : v >= w

\* values.indexOf(v): the first position holding v
indexOf(values, v) ==
    CHOOSE i \in DOMAIN values : values[i] = v /\ \A j \in 1..(i - 1) : values[j] # v

\* lines 174-183: tl, tr, br, bl
orderQuadPoints(points) ==
    LET sum == [i \in DOMAIN points |-> points[i].x + points[i].y]
        diff == [i \in DOMAIN points |-> points[i].x - points[i].y]
        tl == points[indexOf(sum, MinOf(sum))]
        br == points[indexOf(sum, MaxOf(sum))]
        tr == points[indexOf(diff, MaxOf(diff))]
        bl == points[indexOf(diff, MinOf(diff))]
    IN <<tl, tr, br, bl>>

\* twice the signed area of the triangle a, b, c
Cross(a, b, c) == (b.x - a.x) * (c.y - a.y) - (b.y - a.y) * (c.x - a.x)

\* approxPolyDP gives the vertices of a closed contour in order: here the
\* strictly convex quadrilaterals, turning the same way at every vertex
IsQuad(p) ==
    \/ \A i \in 1..4 : Cross(p[i], p[(i % 4) + 1], p[((i + 1) % 4) + 1]) > 0
    \/ \A i \in 1..4 : Cross(p[i], p[(i % 4) + 1], p[((i + 1) % 4) + 1]) < 0

Quads == { p \in [1..4 -> GridPoints] : IsQuad(p) }

----------------------------------------------------------------------------
(* Initial values of each part of the state *)

ParseIdle ==
    /\ parsePc = {}
    /\ serverDob = NoDob
    /\ clientDob = NULL

\* the validation module is loaded and validateIDData has not been called
ValIdle ==
    /\ CURRENT_YEAR = today.y
    /\ vPc = "idle"
    /\ holder = NULL
    /\ idData = NoData
    /\ vResult = NoResult
    /\ vLibResult = NoLibResult

\* an empty database and no request received
StartIdle ==
    /\ sreq = [r \in StartReqs |-> IdleStart]
    /\ users = {}
    /\ challenges = {}

\* no credential registered and no request received
CompleteIdle ==
    /\ clock = 0
    /\ creq = [r \in CompleteReqs |-> IdleComplete]
    /\ credentials = {}

\* no authentication challenge issued, no confirm request received; the
\* registered passkey has never signed
AuthIdle ==
    /\ authKind = "db"
    /\ issued = 0
    /\ areq = [r \in AuthReqs |-> IdleAuth]
    /\ authChallenges = {}
    /\ memChallenges = {}
    /\ memTimers = {}
    /\ credCounter = 0

\* the module is loaded: no browser, no page, no request
PoolIdle ==
    /\ browserInstance = 0
    /\ browserLaunchPromise = "none"
    /\ connected = {}
    /\ launches = 0
    /\ pagePool = <<>>
    /\ pagesInUse = {}
    /\ closedPages = {}
    /\ created = 0
    /\ preq = [r \in PoolReqs |-> IdlePre]

\* the modules are loaded: no worker, no OpenCV, no caller
SingleIdle ==
    /\ worker = [k \in Workers |-> 0]
    /\ workerInitPromise = [k \in Workers |-> "none"]
    /\ workerInits = [k \in Workers |-> 0]
    /\ openCvReadyPromise = "none"
    /\ scriptLoads = 0
    /\ closedBrowsers = {}
    /\ call = [c \in SingleCallers |-> IdleCall]

\* the page is loaded: no worker, extractIDData has not been called
OcrIdle ==
    /\ ocrWorker = 0
    /\ whitelist = ""
    /\ pageseg = "default"
    /\ ocrPc = "idle"
    /\ ocrPass = 1
    /\ fieldResults = [f \in Fields |-> NoFieldResult]
    /\ failedFields = {}
    /\ ocrResult = NoOcrResult
    /\ runs = 0

\* isValidDate has not been called
DateIdle ==
    /\ isoDate = NULL
    /\ dateValid = "none"

\* calculateAge has not been called
AgeIdle ==
    /\ ageBirth = NULL
    /\ ageNow = NoNum
    /\ agePrev = NoNum
    /\ ageDays = 0

\* parseOntarioDlNumber has not been called
DlIdle ==
    /\ dlRaw = <<>>
    /\ dlPc = "idle"
    /\ dlOut = <<>>
    /\ dlAgain = <<>>

\* cropDataUrlRegionToPng has not been called
CropIdle ==
    /\ cropImg = [width |-> 1, height |-> 1]
    /\ cropRegion = [x |-> 0, y |-> 0, w |-> 0, h |-> 0]
    /\ cropPc = "idle"
    /\ cropSrc = NoRect

\* the verify page as first rendered (useState initial values)
PageIdle ==
    /\ pgStep = "upload"
    /\ pgIndex = 0
    /\ pgIdImage = "null"
    /\ pgIdData = "null"
    /\ pgValidation = "null"
    /\ pgSelfie = "null"
    /\ pgFace = "null"
    /\ pgError = "null"
    /\ pgFailed = "null"
    /\ pgCred = "null"
    /\ pgStatus = ""
    /\ pgJobs = {}
    /\ pgVia = "none"
    /\ pgGates = 0

\* getQuadFromContour has not been called
QuadIdle ==
    /\ quadPoints = <<>>
    /\ quadPc = "idle"
    /\ quadOut = <<>>

LaterIdle ==
    /\ AuthIdle
    /\ PoolIdle
    /\ SingleIdle
    /\ OcrIdle
    /\ QuadIdle
    /\ PageIdle
    /\ CropIdle
    /\ DlIdle
    /\ AgeIdle
    /\ DateIdle

----------------------------------------------------------------------------
(* The two parsers run on one raw text *)

InitParse ==
    /\ InitEnv
    /\ text \in Texts
    /\ ParseIdle
    /\ ValIdle
    /\ StartIdle
    /\ CompleteIdle
    /\ LaterIdle

\* the server re-runs its parser on the submitted text
ServerExtract ==
    /\ "server" \notin parsePc
    /\ serverDob' = extractDobFromOcrText(text, today, tz)
    /\ parsePc' = parsePc \cup {"server"}
    /\ UNCHANGED <<envVars, text, clientDob, valVars, startVars, completeVars, laterVars>>

\* the client parses the text it recognised
ClientExtract ==
    /\ "client" \notin parsePc
    /\ clientDob' = extractBirthDate(text, today)
    /\ parsePc' = parsePc \cup {"client"}
    /\ UNCHANGED <<envVars, text, serverDob, valVars, startVars, completeVars, laterVars>>

NextParse == ServerExtract \/ ClientExtract

SpecParse == InitParse /\ [][NextParse]_vars

\* C5: for every raw text and the same evaluation date, the server parser
\* extractDobFromOcrText and the client parser extractBirthDate return the
\* same birth date, or both return none.
C5_ParsersAgree ==
    parsePc = {"server", "client"} => serverDob.birthDate = clientDob

----------------------------------------------------------------------------
(* validateIDData is called by the page *)

InitValidate ==
    /\ InitEnv
    /\ text = <<>>
    /\ ParseIdle
    /\ ValIdle
    /\ StartIdle
    /\ CompleteIdle
    /\ LaterIdle

\* the page stays open while the calendar moves on; CURRENT_YEAR stays as loaded
AdvanceDay ==
    /\ vPc = "idle"
    /\ \E d \in EvalDays : DayBefore(today, d) /\ today' = d
    /\ UNCHANGED <<tz, parseVars, valVars, startVars, completeVars, laterVars>>

\* the page calls validateIDData(result.data) on the data read from a card
Validate ==
    /\ vPc = "idle"
    /\ \E b \in HolderBirths, e \in ExpiryDates, c \in Confidences,
          n \in BOOLEAN, i \in BOOLEAN :
         LET data == [hasName |-> n, hasIdNumber |-> i, birthYear |-> b.y,
                      expiryDate |-> e, confidence |-> c]
         IN /\ holder' = b
            /\ idData' = data
            /\ vResult' = validateIDData(data, CURRENT_YEAR, today, tz)
            /\ vLibResult' = validateIDDataLib(data, CURRENT_YEAR)
    /\ vPc' = "done"
    /\ UNCHANGED <<envVars, parseVars, CURRENT_YEAR, startVars, completeVars, laterVars>>

NextValidate == AdvanceDay \/ Validate

SpecValidate == InitValidate /\ [][NextValidate]_vars

HasError(res, code) == \E k \in 1..Len(res.errors) : res.errors[k] = code

HasWarning(res, code) == \E k \in 1..Len(res.warnings) : res.warnings[k] = code

C7_NeverOver19BelowExactAge ==
    (vPc = "done" /\ holder # NULL /\ ExactAge(holder, today) < 19) =>
        /\ ~vResult.isOver19
        /\ ~vResult.isValid
        /\ HasError(vResult, "UNDER_AGE")

\* C8: isExpired is set and ID_EXPIRED added exactly when the expiry calendar
\* date is strictly before the evaluation calendar date, whatever the host's
\* UTC offset; an ID expiring on the evaluation day itself is not expired.
C8_ExpiredIffEarlierDay ==
    (vPc = "done" /\ idData.expiryDate # NULL) =>
        /\ vResult.isExpired = DayBefore(idData.expiryDate, today)
        /\ HasError(vResult, "ID_EXPIRED") = DayBefore(idData.expiryDate, today)

\* C9: low OCR confidence, a missing name, a missing ID number and a missing
\* expiry date add no entry to errors and do not make isValid false when the
\* birth data yields age at least 19 and the ID is not expired.
C9_WarningsNeverBlock ==
    (vPc = "done" /\ vResult.isOver19 /\ ~vResult.isExpired) =>
        /\ vResult.errors = <<>> /\ vResult.isValid
        /\ vLibResult.errors = <<>> /\ vLibResult.isValid

----------------------------------------------------------------------------
(* POST /api/verify/start handles the requests *)

InitStart ==
    /\ today \in { Iso(2024, 5, 31), Iso(2024, 6, 1) }
    /\ tz \in TzSigns
    /\ text \in RawTexts
    /\ ParseIdle
    /\ ValIdle
    /\ StartIdle
    /\ CompleteIdle
    /\ LaterIdle

\* request r ends with response resp
Respond(r, resp) ==
    sreq' = [sreq EXCEPT ![r].pc = "done", ![r].resp = resp]

\* request r passed the gate and awaits prisma.user.create
PassGate(r, body, bd, age) ==
    sreq' = [sreq EXCEPT ![r].pc = "createUser", ![r].body = body,
                         ![r].finalBirthDate = bd, ![r].finalAge = age]

\* request r, with the body now read, ends with response resp
Answer(r, body, bd, age, resp) ==
    sreq' = [sreq EXCEPT ![r].pc = "done", ![r].body = body,
                         ![r].finalBirthDate = bd, ![r].finalAge = age,
                         ![r].resp = resp]

\* lines 154-170: the age gate on finalBirthDate and finalAge
AgeGate(r, body, bd, age, ocrPassed) ==
    IF AgeGatePasses(bd, age)
    THEN PassGate(r, body, bd, age)
    ELSE Answer(r, body, bd, age, AgeGateResponse(bd, age, ocrPassed))

\* lines 63-111: the fast path with its choice f of final values
FastGate(r, body, f) ==
    IF f.reject
    THEN Answer(r, body, f.finalBirthDate, f.finalAge, RejectBoth)
    ELSE AgeGate(r, body, f.finalBirthDate, f.finalAge, TRUE)

\* lines 47-170 up to the first await: the body is parsed and, on the fast
\* path, the birth date is decided and the age gate applied; a throw of
\* extractDobFromOcrText at line 74 is caught at line 247
Receive(r) ==
    /\ sreq[r].pc = "idle"
    /\ \A q \in StartReqs : q < r => sreq[q].pc = "done"
    /\ \E body \in Bodies(text) :
         IF FastPath(body) /\ DobParserThrows(body.rawOcrText)
         THEN Answer(r, body, body.birthDate, body.age, ErrorResponse(500))
         ELSE IF FastPath(body)
         THEN FastGate(r, body,
                       FastFinal(body, extractDobFromOcrText(body.rawOcrText, today, tz)))
         ELSE IF SlowPath(body)
         THEN sreq' = [sreq EXCEPT ![r].pc = "ocrFetch", ![r].body = body]
         ELSE Answer(r, body, body.birthDate, body.age, ErrorResponse(400))
    /\ UNCHANGED <<envVars, parseVars, valVars, users, challenges, completeVars, laterVars>>

\* lines 143-170: the slow path's extraction result dob goes to the age gate
SlowGate(r, dob) == AgeGate(r, sreq[r].body, dob.birthDate, dob.age, TRUE)

\* the slow path after the fetch of /api/ocr/recognize: the fetch throws, or
\* answers not ok, or returns the text the server recognised on the photo
OcrFetched(r) ==
    /\ sreq[r].pc = "ocrFetch"
    /\ \/ Respond(r, ErrorResponse(500))
       \/ Respond(r, RejectBoth)
       \/ \E ocrText \in {<<>>, text} :
            IF ~OcrPassed(ocrText) THEN Respond(r, RejectBoth)
            ELSE SlowGate(r, extractDobFromOcrText(ocrText, today, tz))
    /\ UNCHANGED <<envVars, parseVars, valVars, users, challenges, completeVars, laterVars>>

\* await prisma.user.create({ data: {} }): a new user row, or the call throws
CreateUser(r) ==
    /\ sreq[r].pc = "createUser"
    /\ \/ LET uid == Cardinality(users) + 1
          IN /\ users' = users \cup {uid}
             /\ sreq' = [sreq EXCEPT ![r].pc = "genOptions", ![r].userId = uid]
       \/ /\ Respond(r, ErrorResponse(500))
          /\ UNCHANGED users
    /\ UNCHANGED <<envVars, parseVars, valVars, challenges, completeVars, laterVars>>

\* await findMany and await generateRegistrationOptions: a fresh challenge, or
\* one of the calls throws
GenerateOptions(r) ==
    /\ sreq[r].pc = "genOptions"
    /\ \/ sreq' = [sreq EXCEPT ![r].pc = "storeChallenge", ![r].challenge = sreq[r].userId]
       \/ Respond(r, ErrorResponse(500))
    /\ UNCHANGED <<envVars, parseVars, valVars, users, challenges, completeVars, laterVars>>

\* await prisma.webAuthnChallenge.create and the success response, or the
\* create throws
StoreChallenge(r) ==
    /\ sreq[r].pc = "storeChallenge"
    /\ \/ /\ challenges' = challenges \cup
                 { [userId |-> sreq[r].userId, challenge |-> sreq[r].challenge,
                    expiresAt |-> clock + CHALLENGE_TTL] }
          /\ Respond(r, SuccessResponse(sreq[r].finalBirthDate, sreq[r].finalAge,
                                        sreq[r].userId, sreq[r].challenge))
       \/ /\ Respond(r, ErrorResponse(500))
          /\ UNCHANGED challenges
    /\ UNCHANGED <<envVars, parseVars, valVars, users, completeVars, laterVars>>

NextStart ==
    \E r \in StartReqs :
        \/ Receive(r)
        \/ OcrFetched(r)
        \/ CreateUser(r)
        \/ GenerateOptions(r)
        \/ StoreChallenge(r)

SpecStart == InitStart /\ [][NextStart]_vars

\* what the server's own parser finds in the text request r submitted
ServerFound(r) == extractDobFromOcrText(sreq[r].body.rawOcrText, today, tz).birthDate

\* request r was answered on the fast path
FastDone(r) == sreq[r].pc = "done" /\ FastPath(sreq[r].body)

\* the WebAuthnChallenge row stored for request r's user exists
ChallengeStored(r) ==
    sreq[r].userId # 0 /\ \E c \in challenges : c.userId = sreq[r].userId

\* request r produced a user row, a challenge row or registrationOptions
Produced(r) ==
    \/ sreq[r].userId # 0
    \/ ChallengeStored(r)
    \/ sreq[r].resp.registrationOptions

\* the final birth date is non-empty and the final age is at least 19
FinalsPass(r) ==
    /\ sreq[r].finalBirthDate # NULL
    /\ IsNum(sreq[r].finalAge)
    /\ sreq[r].finalAge[1] >= 19

\* a verdict of rejection: ocr_passed or age_passed false
Rejected(resp) == resp.ocr_passed = "false" \/ resp.age_passed = "false"

\* C1 as stated: a user record, a stored challenge and registrationOptions
\* are produced only where the final birth date is non-empty and the final
\* age is at least 19, and every rejecting response (ocr_passed or
\* age_passed false, or an error status) is returned before any user or
\* challenge has been created.
C1_Original ==
    \A r \in StartReqs :
        /\ Produced(r) => FinalsPass(r)
        /\ (sreq[r].pc = "done" /\ (Rejected(sreq[r].resp) \/ sreq[r].resp.status # 200))
             => (sreq[r].userId = 0 /\ ~ChallengeStored(r))

\* C1 as amended: rows and registrationOptions are produced only where the
\* final birth date is non-empty and the final age is at least 19; every
\* response with ocr_passed or age_passed false or status 400 is returned
\* before any user or challenge has been created; a 500 response is returned
\* before any challenge has been stored, but the user row may exist already.
C1_GateBeforeIssuance ==
    \A r \in StartReqs :
        /\ Produced(r) => FinalsPass(r)
        /\ (sreq[r].pc = "done" /\ (Rejected(sreq[r].resp) \/ sreq[r].resp.status = 400))
             => (sreq[r].userId = 0 /\ ~ChallengeStored(r))
        /\ (sreq[r].pc = "done" /\ sreq[r].resp.status = 500) => ~ChallengeStored(r)

\* C1 witness: one request was rejected under age with nothing created, the
\* other was issued a user, a stored challenge and registrationOptions
C1_Witness ==
    \E r1, r2 \in StartReqs :
        /\ sreq[r1].pc = "done" /\ sreq[r1].resp.age_passed = "false"
        /\ sreq[r1].resp.ocr_passed = "true" /\ sreq[r1].userId = 0
        /\ sreq[r2].pc = "done" /\ sreq[r2].resp.registrationOptions
        /\ sreq[r2].userId \in users /\ ChallengeStored(r2)

\* the verdict of a response: what the client is told about the document
Verdict(resp) == <<resp.status, resp.ocr_passed, resp.age_passed, resp.age, resp.birthDate>>

\* C2: on the fast path, whenever the server's own extractDobFromOcrText
\* returns a birth date, the accept/reject decision and the age and birthDate
\* in the response depend only on rawOcrText: two requests with the same
\* rawOcrText and different claimed birthDate and age get the same verdict
\* (a request that a failing database call ended with a 500 has no verdict).
C2_ServerDobAuthoritative ==
    \A r1, r2 \in StartReqs :
        ( /\ FastDone(r1) /\ FastDone(r2)
          /\ sreq[r1].body.rawOcrText = sreq[r2].body.rawOcrText
          /\ ServerFound(r1) # NULL
          /\ sreq[r1].resp.status # 500 /\ sreq[r2].resp.status # 500 )
        => Verdict(sreq[r1].resp) = Verdict(sreq[r2].resp)

\* C2 witness: two fast-path requests with the same text, different claimed
\* birth dates and ages, a server-extracted birth date, both accepted
C2_Witness ==
    \E r1, r2 \in StartReqs :
        /\ FastDone(r1) /\ FastDone(r2)
        /\ ServerFound(r1) # NULL
        /\ sreq[r1].body.birthDate # sreq[r2].body.birthDate
        /\ sreq[r1].body.age[1] < 19 /\ sreq[r2].body.age[1] >= 19
        /\ sreq[r1].resp.age_passed = "true" /\ sreq[r2].resp.age_passed = "true"

\* the claimed birth date names a day at least 19 years before today
ImpliesAdult(bd) == WellFormed(bd) /\ IsRealDate(bd) /\ ExactAge(bd, today) >= 19

\* C3: on the fast path, when the server's extraction finds no birth date,
\* the request is accepted only if the claimed birthDate is well-formed
\* YYYY-MM-DD and that birth date implies an age of at least 19 at evaluation
\* time; in every other case it is rejected.
C3_FallbackNeedsImpliedAge ==
    \A r \in StartReqs :
        (FastDone(r) /\ ServerFound(r) = NULL /\ ~ImpliesAdult(sreq[r].body.birthDate))
        => /\ sreq[r].userId = 0
           /\ sreq[r].resp.status # 500 => Rejected(sreq[r].resp)

\* the client's claim is a well-formed YYYY-MM-DD date with age at least 19
ClaimAcceptable(body) == WellFormed(body.birthDate) /\ body.age[1] >= 19

C19_ParserThrowIsExtractionFailure ==
    [][\A r \in StartReqs :
          ( /\ sreq[r].pc = "idle" /\ sreq'[r].pc = "done"
            /\ FastPath(sreq'[r].body)
            /\ DobParserThrows(sreq'[r].body.rawOcrText) )
          => sreq'[r].resp.status # 500]_vars

----------------------------------------------------------------------------
(* POST /api/verify/complete handles concurrent requests *)

\* two verify/start runs have each left a user and a stored challenge
InitComplete ==
    /\ today = Iso(2024, 6, 1)
    /\ tz = 0
    /\ text = <<>>
    /\ ParseIdle
    /\ ValIdle
    /\ sreq = [r \in StartReqs |-> IdleStart]
    /\ users = {1, 2}
    /\ challenges = { ChallengeRow(u, u, CHALLENGE_TTL) : u \in {1, 2} }
    /\ CompleteIdle
    /\ LaterIdle

\* request r ends with response resp
CRespond(r, resp) ==
    creq' = [creq EXCEPT ![r].pc = "done", ![r].resp = resp]

\* request r moves on to its next database call
CStep(r, pc) == creq' = [creq EXCEPT ![r].pc = pc]

\* the body is read and its two fields are validated
CReceive(r) ==
    /\ creq[r].pc = "idle"
    /\ \E uid \in {0} \cup users, att \in {NoAttestation} \cup Attestations :
          IF uid = 0 \/ att = NoAttestation
          THEN creq' = [creq EXCEPT ![r].pc = "done", ![r].userId = uid,
                                    ![r].attestationResponse = att,
                                    ![r].resp = CError(400)]
          ELSE creq' = [creq EXCEPT ![r].pc = "findChallenge", ![r].userId = uid,
                                    ![r].attestationResponse = att]
    /\ UNCHANGED <<envVars, parseVars, valVars, startVars, clock, credentials, laterVars>>

\* step 1: prisma.webAuthnChallenge.findFirst
FindChallenge(r) ==
    /\ creq[r].pc = "findChallenge"
    /\ \/ \E c \in ValidChallenges(creq[r].userId) :
             creq' = [creq EXCEPT ![r].pc = "verify", ![r].challengeRecord = c]
       \/ /\ ValidChallenges(creq[r].userId) = {}
          /\ CRespond(r, CError(400))
       \/ CRespond(r, CError(500))
    /\ UNCHANGED <<envVars, parseVars, valVars, startVars, clock, credentials, laterVars>>

\* step 2: verifyRegistrationResponse against the loaded challenge
VerifyAttestation(r) ==
    /\ creq[r].pc = "verify"
    /\ IF verified(creq[r].attestationResponse, creq[r].challengeRecord.challenge)
       THEN CStep(r, "findCredential")
       ELSE CRespond(r, CError(400))
    /\ UNCHANGED <<envVars, parseVars, valVars, startVars, clock, credentials, laterVars>>

\* step 3: prisma.webAuthnCredential.findUnique, the duplicate check
FindCredential(r) ==
    /\ creq[r].pc = "findCredential"
    /\ \/ IF \E k \in credentials : k.credentialId = creq[r].attestationResponse.id
          THEN CRespond(r, CError(400))
          ELSE CStep(r, "createCredential")
       \/ CRespond(r, CError(500))
    /\ UNCHANGED <<envVars, parseVars, valVars, startVars, clock, credentials, laterVars>>

\* prisma.webAuthnCredential.create; credentialId is a unique column, so a
\* row made meanwhile with the same credentialId makes it throw
CreateCredential(r) ==
    /\ creq[r].pc = "createCredential"
    /\ \/ /\ ~\E k \in credentials : k.credentialId = creq[r].attestationResponse.id
          /\ credentials' = credentials \cup
                 { [userId |-> creq[r].userId,
                    credentialId |-> creq[r].attestationResponse.id] }
          /\ CStep(r, "deleteChallenge")
       \/ /\ CRespond(r, CError(500))
          /\ UNCHANGED credentials
    /\ UNCHANGED <<envVars, parseVars, valVars, startVars, clock, laterVars>>

\* a delete that does not throw when the row is gone (as deleteMany would)
DeleteChallenge_Silent(r) ==
    /\ creq[r].pc = "deleteChallenge"
    /\ challenges' = challenges \ {creq[r].challengeRecord}
    /\ CRespond(r, CResponse(200, TRUE, creq[r].attestationResponse.id))
    /\ UNCHANGED <<envVars, parseVars, valVars, sreq, users, clock, credentials, laterVars>>

\* prisma.webAuthnChallenge.delete by id, which throws when the row is gone;
\* then the success response
DeleteChallenge(r) ==
    /\ creq[r].pc = "deleteChallenge"
    /\ \/ /\ creq[r].challengeRecord \in challenges
          /\ challenges' = challenges \ {creq[r].challengeRecord}
          /\ CRespond(r, CResponse(200, TRUE, creq[r].attestationResponse.id))
       \/ /\ CRespond(r, CError(500))
          /\ UNCHANGED challenges
    /\ UNCHANGED <<envVars, parseVars, valVars, sreq, users, clock, credentials, laterVars>>

\* a minute passes
Tick ==
    /\ clock < MaxClock
    /\ clock' = clock + 1
    /\ UNCHANGED <<envVars, parseVars, valVars, startVars, creq, credentials, laterVars>>

NextComplete ==
    \/ Tick
    \/ \E r \in CompleteReqs :
        \/ CReceive(r)
        \/ FindChallenge(r)
        \/ VerifyAttestation(r)
        \/ FindCredential(r)
        \/ CreateCredential(r)
        \/ DeleteChallenge(r)

SpecComplete == InitComplete /\ [][NextComplete]_vars

\* request r was answered with success: true
Succeeded(r) == creq[r].pc = "done" /\ creq[r].resp.success

\* C10: a stored registration challenge authorizes at most one successful
\* POST /api/verify/complete: once a request has succeeded its challenge is
\* deleted, and no other request for the same userId, later or concurrent,
\* also succeeds, under every interleaving of the lookup, create and delete.
C10_ChallengeSingleUse ==
    /\ \A r \in CompleteReqs : Succeeded(r) => creq[r].challengeRecord \notin challenges
    /\ \A r1, r2 \in CompleteReqs :
          (r1 # r2 /\ Succeeded(r1) /\ Succeeded(r2)) => creq[r1].userId # creq[r2].userId

\* C10 witness: two requests for one userId both loaded the same challenge
\* before either deleted it; one succeeded and the other was refused when its
\* delete found the row gone
C10_Witness ==
    \E r1, r2 \in CompleteReqs :
        /\ r1 # r2 /\ Succeeded(r1)
        /\ creq[r2].pc = "done" /\ creq[r2].resp.status = 500
        /\ creq[r2].challengeRecord = creq[r1].challengeRecord
        /\ \E k \in credentials :
              k.credentialId = creq[r2].attestationResponse.id /\ k.userId = creq[r2].userId
        /\ creq[r1].attestationResponse.id # creq[r2].attestationResponse.id

----------------------------------------------------------------------------
(* Passkey authentication: challenges are issued and confirmed *)

InitAuth ==
    /\ today = Iso(2024, 6, 1)
    /\ tz = 0
    /\ text = <<>>
    /\ ParseIdle
    /\ ValIdle
    /\ StartIdle
    /\ CompleteIdle
    /\ authKind \in AuthKinds
    /\ issued = 0
    /\ areq = [r \in AuthReqs |-> IdleAuth]
    /\ authChallenges = {}
    /\ memChallenges = {}
    /\ memTimers = {}
    /\ credCounter = 0
    /\ PoolIdle
    /\ SingleIdle
    /\ OcrIdle
    /\ QuadIdle
    /\ PageIdle
    /\ CropIdle
    /\ DlIdle
    /\ AgeIdle
    /\ DateIdle

authOthers == <<envVars, parseVars, valVars, startVars, completeVars, poolVars, singleVars, ocrVars, dateVars, ageVars, dlVars, cropVars, verifyVars, quadVars>>

\* the start handler issues the next challenge for passkey pk1 and stores it:
\* webAuthnChallenge.create, storeChallenge(passkey_id, challenge) or
\* storeChallenge(challenge, passkey_id)
IssueChallenge ==
    /\ issued < MaxIssued
    /\ issued' = issued + 1
    /\ IF authKind = "db"
       THEN /\ authChallenges' = authChallenges \cup
                                   { AuthRow(issued + 1, clock + CHALLENGE_TTL) }
            /\ UNCHANGED <<memChallenges, memTimers>>
       ELSE LET key == IF authKind = "memById" THEN <<"id", "pk1">>
                       ELSE <<"challenge", issued + 1>>
                value == IF authKind = "memById" THEN <<"challenge", issued + 1>>
                         ELSE <<"id", "pk1">>
            IN /\ memChallenges' = MapSet(memChallenges, key, value)
               /\ memTimers' = memTimers \cup { MemTimer(key, clock + CHALLENGE_TTL) }
               /\ UNCHANGED authChallenges
    /\ UNCHANGED <<authOthers, authKind, areq, credCounter>>

\* a setTimeout callback of storeChallenge runs: challenges.delete(id)
TimerFires ==
    /\ \E t \in memTimers :
          /\ t.at <= clock
          /\ memChallenges' = MapDelete(memChallenges, t.id)
          /\ memTimers' = memTimers \ {t}
    /\ UNCHANGED <<authOthers, authKind, issued, areq, authChallenges, credCounter>>

\* request r ends with this response
ARespond(r, status, isVerified) ==
    areq' = [areq EXCEPT ![r].pc = "done", ![r].resp = AResponse(status, isVerified)]

AStep(r, pc) == areq' = [areq EXCEPT ![r].pc = pc]

\* the body is read and the credential looked up with findUnique:
\* /api/auth/verify takes the credential id from the assertion, the passkey
\* handlers take passkey_id from the body; 404 when there is no credential
AReceive(r) ==
    /\ areq[r].pc = "idle"
    /\ \E att \in Assertions :
          areq' = [areq EXCEPT
                     ![r].pc = IF att.id = "pk1" THEN "findChallenge" ELSE "done",
                     ![r].passkey_id = att.id,
                     ![r].assertionResponse = att,
                     ![r].resp = IF att.id = "pk1" THEN NoAResponse
                                 ELSE AResponse(404, FALSE)]
    /\ UNCHANGED <<authOthers, authKind, issued, authChallenges, memChallenges,
                   memTimers, credCounter>>

\* the challenge lookup: findFirst by challenge value and expiry, or
\* getChallenge(passkey_id), or getChallenge(receivedChallenge); 400 when
\* nothing is found
AFindChallenge(r) ==
    /\ areq[r].pc = "findChallenge"
    /\ LET att == areq[r].assertionResponse
           found == IF authKind = "db"
                    THEN { c.challenge : c \in ValidAuthRows(att.challenge) }
                    ELSE IF authKind = "memById"
                    THEN { v[2] : v \in MapGet(memChallenges, MemKey(authKind, areq[r])) }
                    ELSE { att.challenge : v \in MapGet(memChallenges, MemKey(authKind, areq[r])) }
       IN IF found = {}
          THEN ARespond(r, 400, FALSE)
          ELSE \E ch \in found :
                 areq' = [areq EXCEPT ![r].pc = "verify", ![r].expectedChallenge = ch]
    /\ UNCHANGED <<authOthers, authKind, issued, authChallenges, memChallenges,
                   memTimers, credCounter>>

\* verifyAuthenticationResponse: /api/auth/verify answers 400 when it throws
\* or does not verify; the passkey handlers answer 401 when it does not
\* verify and fall into the catch block (500) when it throws
AVerify(r) ==
    /\ areq[r].pc = "verify"
    /\ LET v == verifyAuthentication(areq[r].assertionResponse,
                                     areq[r].expectedChallenge, credCounter)
       IN IF v = "verified" THEN AStep(r, "updateCounter")
          ELSE IF authKind = "db" THEN ARespond(r, 400, FALSE)
          ELSE IF v = "unverified" THEN ARespond(r, 401, FALSE)
          ELSE ARespond(r, 500, FALSE)
    /\ UNCHANGED <<authOthers, authKind, issued, authChallenges, memChallenges,
                   memTimers, credCounter>>

\* the stored counter is updated; the handler keyed by the challenge then
\* answers verified: true without touching the challenge store
AUpdateCounter(r) ==
    /\ areq[r].pc = "updateCounter"
    /\ \/ /\ credCounter' = areq[r].assertionResponse.counter
          /\ IF authKind = "memByChallenge"
             THEN ARespond(r, 200, TRUE)
             ELSE AStep(r, "deleteChallenge")
       \/ /\ ARespond(r, 500, FALSE)
          /\ UNCHANGED credCounter
    /\ UNCHANGED <<authOthers, authKind, issued, authChallenges, memChallenges,
                   memTimers>>

\* the used challenge is deleted and verified: true returned:
\* webAuthnChallenge.delete throws when the row is gone, deleteChallenge of
\* the Map does not
ADeleteChallenge(r) ==
    /\ areq[r].pc = "deleteChallenge"
    /\ IF authKind = "db"
       THEN LET rows == { c \in authChallenges :
                            c.challenge = areq[r].expectedChallenge }
            IN /\ IF rows = {}
                  THEN ARespond(r, 500, FALSE) /\ UNCHANGED authChallenges
                  ELSE /\ authChallenges' = authChallenges \ rows
                       /\ ARespond(r, 200, TRUE)
               /\ UNCHANGED memChallenges
       ELSE /\ memChallenges' = MapDelete(memChallenges, MemKey(authKind, areq[r]))
            /\ ARespond(r, 200, TRUE)
            /\ UNCHANGED authChallenges
    /\ UNCHANGED <<authOthers, authKind, issued, memTimers, credCounter>>

NextAuth ==
    \/ IssueChallenge
    \/ TimerFires
    \/ Tick
    \/ \E r \in AuthReqs :
        \/ AReceive(r)
        \/ AFindChallenge(r)
        \/ AVerify(r)
        \/ AUpdateCounter(r)
        \/ ADeleteChallenge(r)

SpecAuth == InitAuth /\ [][NextAuth]_vars

\* request r was answered verified: true
Verified(r) == areq[r].pc = "done" /\ areq[r].resp.verified

\* a confirm request presenting challenge ch for passkey pk1 would find a
\* valid challenge in the deployed store now
StillAccepted(ch) ==
    IF authKind = "db" THEN ValidAuthRows(ch) # {}
    ELSE IF authKind = "memById"
    THEN <<"challenge", ch>> \in MapGet(memChallenges, <<"id", "pk1">>)
    ELSE MapGet(memChallenges, <<"challenge", ch>>) # {}

\* C11: after an authentication assertion has been verified successfully,
\* the challenge it used is no longer accepted: a later confirm request
\* presenting the same challenge within the TTL finds no valid challenge.
\* This is to hold for /api/auth/verify and for both passkey/confirm handlers.
C11_UsedChallengeGone ==
    \A r \in AuthReqs :
        Verified(r) => ~StillAccepted(areq[r].assertionResponse.challenge)

----------------------------------------------------------------------------
(* Preprocessing requests share the page pool *)

poolOthers == <<envVars, parseVars, valVars, startVars, completeVars, authVars, singleVars, ocrVars, dateVars, ageVars, dlVars, cropVars, verifyVars, quadVars>>

\* an earlier request has launched the browser, which is connected
InitPool ==
    /\ today = Iso(2024, 6, 1)
    /\ tz = 0
    /\ text = <<>>
    /\ ParseIdle
    /\ ValIdle
    /\ StartIdle
    /\ CompleteIdle
    /\ AuthIdle
    /\ browserInstance = 1
    /\ browserLaunchPromise = "fulfilled"
    /\ connected = {1}
    /\ launches = 1
    /\ pagePool = <<>>
    /\ pagesInUse = {}
    /\ closedPages = {}
    /\ created = 0
    /\ preq = [r \in PoolReqs |-> IdlePre]
    /\ SingleIdle
    /\ OcrIdle
    /\ QuadIdle
    /\ PageIdle
    /\ CropIdle
    /\ DlIdle
    /\ AgeIdle
    /\ DateIdle

\* releasePage(page)
releasePage(page) ==
    /\ pagesInUse' = pagesInUse \ {page}
    /\ IF page \in closedPages
       THEN UNCHANGED <<pagePool, closedPages>>
       ELSE IF Len(pagePool) < MAX_POOL_SIZE
       THEN pagePool' = Append(pagePool, page) /\ UNCHANGED closedPages
       ELSE closedPages' = closedPages \cup {page} /\ UNCHANGED pagePool

\* preprocessIdDocumentPuppeteer starts (the requests are numbered in the
\* order they arrive) and acquirePage runs up to its next await: getBrowser returns the connected browser, then a page is popped
\* from the pool and its reset evaluate awaited, or, the pool being empty,
\* browser.newPage() and page.setContent() are awaited
Acquire(r) ==
    /\ preq[r].pc = "idle"
    /\ \A q \in PoolReqs : q < r => preq[q].pc # "idle"
    /\ browserInstance # 0 /\ browserInstance \in connected
    /\ LET popped == PopOpen(pagePool, closedPages)
       IN /\ pagePool' = popped.pool
          /\ preq' = [preq EXCEPT ![r].pc = IF popped.page # 0 THEN "reset" ELSE "newPage",
                                  ![r].page = popped.page]
    /\ UNCHANGED <<poolOthers, browserVars, pagesInUse, closedPages, created>>

\* the reset evaluate of a reused page settles (its error is ignored):
\* pagesInUse.add(page), acquirePage returns, and the preprocessing evaluate
\* and its timer are started
Reused(r) ==
    /\ preq[r].pc = "reset"
    /\ pagesInUse' = pagesInUse \cup {preq[r].page}
    /\ preq' = [preq EXCEPT ![r].pc = "preprocess", ![r].workEval = "pending",
                            ![r].workTimer = "armed"]
    /\ UNCHANGED <<poolOthers, browserVars, pagePool, closedPages, created>>

\* request r ends: the promise of preprocessIdDocumentPuppeteer settles
Settle(r, result) == preq' = [preq EXCEPT ![r].pc = "done", ![r].result = result]

\* browser.newPage() and page.setContent(): newPage throws and there is no
\* page; or the page is made and setContent throws; or both succeed and the
\* OpenCV-load evaluate and its timer are started
NewPage(r) ==
    /\ preq[r].pc = "newPage"
    /\ \/ /\ Settle(r, "failure")
          /\ UNCHANGED created
       \/ /\ created' = created + 1
          /\ preq' = [preq EXCEPT ![r].pc = "done", ![r].result = "failure",
                                  ![r].page = created + 1]
       \/ /\ created' = created + 1
          /\ preq' = [preq EXCEPT ![r].pc = "loadOpenCv", ![r].page = created + 1,
                                  ![r].loadEval = "pending", ![r].loadTimer = "armed"]
    /\ UNCHANGED <<poolOthers, browserVars, pagePool, pagesInUse, closedPages>>

\* the OpenCV-load evaluate fulfils: its then-callback clears the timer, the
\* race is won, pagesInUse.add(page), and the preprocessing evaluate and its
\* timer are started
LoadFulfils(r) ==
    /\ preq[r].pc = "loadOpenCv" /\ preq[r].loadEval = "pending"
    /\ pagesInUse' = pagesInUse \cup {preq[r].page}
    /\ preq' = [preq EXCEPT ![r].pc = "preprocess", ![r].loadEval = "fulfilled",
                            ![r].loadTimer = "cleared",
                            ![r].workEval = "pending", ![r].workTimer = "armed"]
    /\ UNCHANGED <<poolOthers, browserVars, pagePool, closedPages, created>>

\* the OpenCV-load evaluate rejects: the then-callback does not run, the
\* race rejects, acquirePage rethrows, and the caller's page is still null
LoadRejects(r) ==
    /\ preq[r].pc = "loadOpenCv" /\ preq[r].loadEval = "pending"
    /\ preq' = [preq EXCEPT ![r].pc = "done", ![r].result = "failure",
                            ![r].loadEval = "rejected"]
    /\ UNCHANGED <<poolOthers, browserVars, pageVars>>

\* the 90 s timer fires first: the race rejects and acquirePage rethrows
LoadTimesOut(r) ==
    /\ preq[r].pc = "loadOpenCv" /\ preq[r].loadTimer = "armed"
    /\ preq' = [preq EXCEPT ![r].pc = "done", ![r].result = "timeout",
                            ![r].loadTimer = "fired"]
    /\ UNCHANGED <<poolOthers, browserVars, pageVars>>

\* the preprocessing evaluate fulfils: the timer is cleared, the result is
\* returned and the finally block releases the page
WorkFulfils(r) ==
    /\ preq[r].pc = "preprocess" /\ preq[r].workEval = "pending"
    /\ preq' = [preq EXCEPT ![r].pc = "done", ![r].result = "success",
                            ![r].workEval = "fulfilled", ![r].workTimer = "cleared"]
    /\ releasePage(preq[r].page)
    /\ UNCHANGED <<poolOthers, browserVars, created>>

\* the preprocessing evaluate rejects: the error is rethrown and the finally
\* block releases the page
WorkRejects(r) ==
    /\ preq[r].pc = "preprocess" /\ preq[r].workEval = "pending"
    /\ preq' = [preq EXCEPT ![r].pc = "done", ![r].result = "failure",
                            ![r].workEval = "rejected"]
    /\ releasePage(preq[r].page)
    /\ UNCHANGED <<poolOthers, browserVars, created>>

\* the 60 s timer fires first: the race rejects and the finally block
\* releases the page
WorkTimesOut(r) ==
    /\ preq[r].pc = "preprocess" /\ preq[r].workTimer = "armed"
    /\ preq' = [preq EXCEPT ![r].pc = "done", ![r].result = "timeout",
                            ![r].workTimer = "fired"]
    /\ releasePage(preq[r].page)
    /\ UNCHANGED <<poolOthers, browserVars, created>>

\* after the request has ended, a timer that was left armed fires
Afterwards(r) ==
    /\ preq[r].pc = "done"
    /\ \/ /\ preq[r].loadTimer = "armed"
          /\ preq' = [preq EXCEPT ![r].loadTimer = "fired"]
       \/ /\ preq[r].workTimer = "armed"
          /\ preq' = [preq EXCEPT ![r].workTimer = "fired"]
    /\ UNCHANGED <<poolOthers, browserVars, pageVars>>

NextPool ==
    \E r \in PoolReqs :
        \/ Acquire(r)
        \/ Reused(r)
        \/ NewPage(r)
        \/ LoadFulfils(r)
        \/ LoadRejects(r)
        \/ LoadTimesOut(r)
        \/ WorkFulfils(r)
        \/ WorkRejects(r)
        \/ WorkTimesOut(r)
        \/ Afterwards(r)

SpecPool == InitPool /\ [][NextPool]_vars

\* the pages a preprocessing request holds: in pagesInUse, or popped or
\* made by acquirePage and not yet handed to the caller
PagesHeld == { preq[r].page : r \in { q \in PoolReqs : preq[q].pc \notin {"idle", "newPage", "done"} } }

\* C12: at most MAX_POOL_SIZE rendering pages are in use by preprocessing
\* requests at any time; with that many in use a further request waits
\* instead of obtaining another page.
C12_AtMostPoolSizeInUse ==
    /\ Cardinality(pagesInUse) <= MAX_POOL_SIZE
    /\ Cardinality(PagesHeld) <= MAX_POOL_SIZE

\* C13: once a preprocessing request has settled by success, failure or
\* timeout, the page it obtained from the pool or newly created is out of
\* the in-use set and is either back in the pool (or handed on to a later
\* request from there) or closed; this includes a new page whose OpenCV
\* initialisation failed or timed out inside acquirePage.
C13_SettledPageReleased ==
    \A r \in PoolReqs :
        (preq[r].pc = "done" /\ preq[r].page # 0) =>
            \/ preq[r].page \in closedPages
            \/ preq[r].page \in Range(pagePool)
            \/ \E q \in PoolReqs : q # r /\ preq[q].pc # "done" /\ preq[q].page = preq[r].page

\* C14: once a timeout-guarded evaluate has settled, by fulfilling or by
\* rejecting, its timer is no longer armed, so it cannot fire later; this is
\* to hold for the OpenCV load in acquirePage and for the preprocessing
\* evaluate.
C14_SettledMeansTimerCancelled ==
    \A r \in PoolReqs :
        /\ preq[r].loadEval \in {"fulfilled", "rejected"} => preq[r].loadTimer # "armed"
        /\ preq[r].workEval \in {"fulfilled", "rejected"} => preq[r].workTimer # "armed"

----------------------------------------------------------------------------
(* Concurrent first calls of the lazy getters *)

singleOthers == <<envVars, parseVars, valVars, startVars, completeVars, authVars, closedPages, created, preq, ocrVars, dateVars, ageVars, dlVars, cropVars, verifyVars, quadVars>>

InitSingle ==
    /\ today = Iso(2024, 6, 1)
    /\ tz = 0
    /\ text = <<>>
    /\ ParseIdle
    /\ ValIdle
    /\ StartIdle
    /\ CompleteIdle
    /\ LaterIdle

\* caller c calls getBrowser(), which runs up to its first await
GetBrowser(c) ==
    /\ call[c].pc = "idle"
    /\ IF browserInstance # 0 /\ browserInstance \in connected
       THEN /\ call' = [call EXCEPT ![c] = [pc |-> "done", target |-> "browser", how |-> "cached", init |-> 0,
                                            outcome |-> "ok", got |-> browserInstance]]
            /\ UNCHANGED <<browserLaunchPromise, launches>>
       ELSE IF ~MustLaunch(browserInstance, browserLaunchPromise, connected)
       THEN /\ call' = [call EXCEPT ![c] =
                  IF browserLaunchPromise = "rejected"
                  THEN [pc |-> "done", target |-> "browser", how |-> "late", init |-> 0, outcome |-> "failed", got |-> 0]
                  ELSE [pc |-> "await", target |-> "browser", how |-> "shared", init |-> launches, outcome |-> "none", got |-> 0]]
            /\ UNCHANGED <<browserLaunchPromise, launches>>
       ELSE /\ launches' = launches + 1
            /\ browserLaunchPromise' = "pending"
            /\ call' = [call EXCEPT ![c] = [pc |-> "await", target |-> "browser", how |-> "started", init |-> launches + 1,
                                            outcome |-> "none", got |-> 0]]
    /\ UNCHANGED <<singleOthers, browserInstance, connected, pagePool, pagesInUse,
                   worker, workerInitPromise, workerInits, openCvReadyPromise, scriptLoads, closedBrowsers>>

\* puppeteer.launch fulfils: the launcher stores the browser and registers
\* the disconnect handler, and every caller awaiting the promise gets it
LaunchFulfils ==
    /\ browserLaunchPromise = "pending"
    /\ browserLaunchPromise' = "fulfilled"
    /\ browserInstance' = launches
    /\ connected' = connected \cup {launches}
    /\ call' = Resume("browser", "ok", launches)
    /\ UNCHANGED <<singleOthers, launches, pagePool, pagesInUse,
                   worker, workerInitPromise, workerInits, openCvReadyPromise, scriptLoads, closedBrowsers>>

\* puppeteer.launch rejects: every caller awaiting the promise throws, and
\* browserLaunchPromise keeps the rejected promise
LaunchRejects ==
    /\ browserLaunchPromise = "pending"
    /\ browserLaunchPromise' = "rejected"
    /\ call' = Resume("browser", "failed", 0)
    /\ UNCHANGED <<singleOthers, browserInstance, connected, launches, pagePool, pagesInUse,
                   worker, workerInitPromise, workerInits, openCvReadyPromise, scriptLoads, closedBrowsers>>

\* the browser disconnects and its "disconnected" handler runs
Disconnected ==
    /\ browserInstance # 0 /\ browserInstance \in connected
    /\ connected' = connected \ {browserInstance}
    /\ closedBrowsers' = closedBrowsers \cup {browserInstance}
    /\ browserInstance' = 0
    /\ browserLaunchPromise' = "none"
    /\ pagePool' = <<>>
    /\ pagesInUse' = {}
    /\ UNCHANGED <<singleOthers, launches, call,
                   worker, workerInitPromise, workerInits, openCvReadyPromise, scriptLoads>>

\* caller c calls getGeneralWorker() or getDatesWorker(), which runs up to
\* the first await of the initialisation
GetWorker(c, k) ==
    /\ call[c].pc = "idle"
    /\ IF worker[k] # 0
       THEN /\ call' = [call EXCEPT ![c] = [pc |-> "done", target |-> k, how |-> "cached", init |-> 0,
                                            outcome |-> "ok", got |-> worker[k]]]
            /\ UNCHANGED <<workerInitPromise, workerInits>>
       ELSE IF ~MustInit(worker[k], workerInitPromise[k])
       THEN /\ call' = [call EXCEPT ![c] =
                  IF workerInitPromise[k] = "rejected"
                  THEN [pc |-> "done", target |-> k, how |-> "late", init |-> 0, outcome |-> "failed", got |-> 0]
                  ELSE [pc |-> "await", target |-> k, how |-> "shared", init |-> workerInits[k], outcome |-> "none", got |-> 0]]
            /\ UNCHANGED <<workerInitPromise, workerInits>>
       ELSE /\ workerInits' = [workerInits EXCEPT ![k] = @ + 1]
            /\ workerInitPromise' = [workerInitPromise EXCEPT ![k] = "pending"]
            /\ call' = [call EXCEPT ![c] = [pc |-> "await", target |-> k, how |-> "started", init |-> workerInits[k] + 1,
                                            outcome |-> "none", got |-> 0]]
    /\ UNCHANGED <<singleOthers, browserVars, pagePool, pagesInUse,
                   worker, openCvReadyPromise, scriptLoads, closedBrowsers>>

\* createWorker and setParameters succeed: the worker is stored and every
\* caller awaiting the promise gets it
InitFulfils(k) ==
    /\ workerInitPromise[k] = "pending"
    /\ workerInitPromise' = [workerInitPromise EXCEPT ![k] = "fulfilled"]
    /\ worker' = [worker EXCEPT ![k] = workerInits[k]]
    /\ call' = Resume(k, "ok", workerInits[k])
    /\ UNCHANGED <<singleOthers, browserVars, pagePool, pagesInUse,
                   workerInits, openCvReadyPromise, scriptLoads, closedBrowsers>>

\* createWorker or setParameters throws: every caller awaiting the promise
\* throws, and the init promise variable keeps the rejected promise
InitRejects(k) ==
    /\ workerInitPromise[k] = "pending"
    /\ workerInitPromise' = [workerInitPromise EXCEPT ![k] = "rejected"]
    /\ call' = Resume(k, "failed", 0)
    /\ UNCHANGED <<singleOthers, browserVars, pagePool, pagesInUse,
                   worker, workerInits, openCvReadyPromise, scriptLoads, closedBrowsers>>

\* caller c calls ensureOpenCvReady() in the browser: the existing promise
\* is returned, or a new one is made whose executor finds cv ready on the
\* window or appends the script tag
EnsureOpenCvReady(c) ==
    /\ call[c].pc = "idle"
    /\ IF openCvReadyPromise # "none"
       THEN /\ call' = [call EXCEPT ![c] =
                  CASE openCvReadyPromise = "rejected" ->
                         [pc |-> "done", target |-> "opencv", how |-> "late", init |-> 0, outcome |-> "failed", got |-> 0]
                    [] openCvReadyPromise = "fulfilled" ->
                         [pc |-> "done", target |-> "opencv", how |-> "cached", init |-> 0, outcome |-> "ok", got |-> 1]
                    [] OTHER ->
                         [pc |-> "await", target |-> "opencv", how |-> "shared", init |-> scriptLoads, outcome |-> "none", got |-> 0]]
            /\ UNCHANGED <<openCvReadyPromise, scriptLoads>>
       ELSE \/ /\ openCvReadyPromise' = "fulfilled"
               /\ call' = [call EXCEPT ![c] = [pc |-> "done", target |-> "opencv", how |-> "started", init |-> 0,
                                               outcome |-> "ok", got |-> 1]]
               /\ UNCHANGED scriptLoads
            \/ /\ openCvReadyPromise' = "pending"
               /\ scriptLoads' = scriptLoads + 1
               /\ call' = [call EXCEPT ![c] = [pc |-> "await", target |-> "opencv", how |-> "started", init |-> scriptLoads + 1,
                                               outcome |-> "none", got |-> 0]]
    /\ UNCHANGED <<singleOthers, browserVars, pagePool, pagesInUse,
                   worker, workerInitPromise, workerInits, closedBrowsers>>

\* the script loads and the OpenCV runtime becomes ready
ScriptReady ==
    /\ openCvReadyPromise = "pending"
    /\ openCvReadyPromise' = "fulfilled"
    /\ call' = Resume("opencv", "ok", 1)
    /\ UNCHANGED <<singleOthers, browserVars, pagePool, pagesInUse,
                   worker, workerInitPromise, workerInits, scriptLoads, closedBrowsers>>

\* script.onerror, or onload without a cv object: the promise rejects and
\* openCvReadyPromise keeps it
ScriptFails ==
    /\ openCvReadyPromise = "pending"
    /\ openCvReadyPromise' = "rejected"
    /\ call' = Resume("opencv", "failed", 0)
    /\ UNCHANGED <<singleOthers, browserVars, pagePool, pagesInUse,
                   worker, workerInitPromise, workerInits, scriptLoads, closedBrowsers>>

NextSingle ==
    \/ \E c \in SingleCallers : GetBrowser(c)
    \/ LaunchFulfils
    \/ LaunchRejects
    \/ Disconnected
    \/ \E c \in SingleCallers, k \in Workers : GetWorker(c, k)
    \/ \E k \in Workers : InitFulfils(k)
    \/ \E k \in Workers : InitRejects(k)
    \/ \E c \in SingleCallers : EnsureOpenCvReady(c)
    \/ ScriptReady
    \/ ScriptFails

SpecSingle == InitSingle /\ [][NextSingle]_vars

\* callers c1 and c2 of the same getter were both served by one
\* initialisation: c1 started it, c2 received the in-flight promise
SharedInit(c1, c2) ==
    /\ c1 # c2
    /\ call[c1].target = call[c2].target
    /\ call[c1].init = call[c2].init
    /\ call[c1].how = "started" /\ call[c2].how = "shared"
    /\ call[c1].outcome = "ok" /\ call[c2].outcome = "ok"

\* C15: under any interleaving of concurrent first requests the browser is
\* launched and each Tesseract worker is initialised at most once: a launch
\* only follows the disconnect of every earlier browser, at most one browser
\* is connected, no launch is in flight while one is connected, createWorker
\* runs at most once per worker, and callers that arrive during an
\* initialisation receive the instance that initialisation produces.
C15_InitialisedAtMostOnce ==
    /\ launches <= Cardinality(closedBrowsers) + 1
    /\ Cardinality(connected) <= 1
    /\ browserLaunchPromise = "pending" => connected = {}
    /\ \A k \in Workers : workerInits[k] <= 1
    /\ \A c1, c2 \in SingleCallers :
          (/\ call[c1].target = call[c2].target
           /\ call[c1].target \in Workers
           /\ call[c1].outcome = "ok" /\ call[c2].outcome = "ok") => call[c1].got = call[c2].got
    /\ \A c1, c2 \in SingleCallers : SharedInit(c1, c2) => call[c1].got = call[c2].got

C15_Witness ==
    /\ \E c1, c2 \in SingleCallers : SharedInit(c1, c2) /\ call[c1].target = "browser"
    /\ \E c \in SingleCallers : call[c].target \in Workers /\ call[c].how = "shared" /\ call[c].outcome = "ok"

\* C16: a failed browser launch, worker initialisation or OpenCV load fails
\* only the requests that were waiting on it: a request that arrives after
\* the failure starts a fresh initialisation and does not fail on the old
\* one.
C16_FailureNotCached ==
    \A c \in SingleCallers :
        call[c].outcome = "failed" => call[c].how \in {"started", "shared"}

----------------------------------------------------------------------------
(* extractIDData runs on the page *)

ocrOthers == <<envVars, parseVars, valVars, startVars, completeVars, authVars, poolVars, singleVars, dateVars, ageVars, dlVars, cropVars, verifyVars, quadVars>>

InitOcr ==
    /\ today = Iso(2024, 6, 1)
    /\ tz = 0
    /\ text = <<>>
    /\ ParseIdle
    /\ ValIdle
    /\ StartIdle
    /\ CompleteIdle
    /\ LaterIdle

\* the catch block of extractIDData
OcrFailed ==
    /\ ocrPc' = "done"
    /\ ocrResult' = [success |-> FALSE, data |-> "null"]

\* extractIDData is called
StartRun ==
    /\ ocrPc \in {"idle", "done"}
    /\ runs < MaxRuns
    /\ runs' = runs + 1
    /\ ocrPc' = "prepare"
    /\ ocrPass' = 1
    /\ fieldResults' = [f \in Fields |-> NoFieldResult]
    /\ failedFields' = {}
    /\ ocrResult' = NoOcrResult
    /\ UNCHANGED <<ocrOthers, ocrWorker, whitelist, pageseg>>

\* getWorker, preprocessing and the five crops: they succeed, or one of
\* them throws
Prepare ==
    /\ ocrPc = "prepare"
    /\ \/ /\ ocrWorker' = 1
          /\ ocrPc' = "set"
          /\ UNCHANGED ocrResult
       \/ /\ ocrWorker = 0
          /\ OcrFailed
          /\ UNCHANGED ocrWorker
       \/ /\ ocrWorker' = 1
          /\ OcrFailed
    /\ UNCHANGED <<ocrOthers, whitelist, pageseg, ocrPass, fieldResults, failedFields, runs>>

\* setParameters of the current pass
SetParameters ==
    /\ ocrPc = "set"
    /\ whitelist' = setWhitelist(Passes[ocrPass], whitelist)
    /\ pageseg' = setPageseg(Passes[ocrPass])
    /\ ocrPc' = "recognize"
    /\ UNCHANGED <<ocrOthers, ocrWorker, ocrPass, fieldResults, failedFields, ocrResult, runs>>

\* recognize of a field crop returns
RecognizeField ==
    /\ ocrPc = "recognize"
    /\ Passes[ocrPass] \in Fields
    /\ \E reading \in Readings :
          fieldResults' = [fieldResults EXCEPT ![Passes[ocrPass]] =
                              [text |-> reading.text, confidence |-> reading.confidence,
                               normalized |-> "none"]]
    /\ ocrPass' = ocrPass + 1
    /\ ocrPc' = "set"
    /\ UNCHANGED <<ocrOthers, ocrWorker, whitelist, pageseg, failedFields, ocrResult, runs>>

\* recognize of a field crop throws: runFieldOcr rejects and the await in
\* extractIDData rethrows into its catch block
RecognizeFieldThrows ==
    /\ ocrPc = "recognize"
    /\ Passes[ocrPass] \in Fields
    /\ failedFields' = failedFields \cup {Passes[ocrPass]}
    /\ OcrFailed
    /\ UNCHANGED <<ocrOthers, ocrWorker, whitelist, pageseg, ocrPass, fieldResults, runs>>

\* the full-card recognize returns, the field texts are parsed and the
\* result is returned
RecognizeFull ==
    /\ ocrPc = "recognize"
    /\ Passes[ocrPass] = "full"
    /\ fieldResults' = [f \in Fields |-> [fieldResults[f] EXCEPT !.normalized = normalizedOf(fieldResults[f])]]
    /\ ocrResult' = [success |-> TRUE, data |-> "fields"]
    /\ ocrPc' = "done"
    /\ UNCHANGED <<ocrOthers, ocrWorker, whitelist, pageseg, ocrPass, failedFields, runs>>

\* the full-card recognize throws
RecognizeFullThrows ==
    /\ ocrPc = "recognize"
    /\ Passes[ocrPass] = "full"
    /\ OcrFailed
    /\ UNCHANGED <<ocrOthers, ocrWorker, whitelist, pageseg, ocrPass, fieldResults, failedFields, runs>>

NextOcr ==
    \/ StartRun
    \/ Prepare
    \/ SetParameters
    \/ RecognizeField
    \/ RecognizeFieldThrows
    \/ RecognizeFull
    \/ RecognizeFullThrows

SpecOcr == InitOcr /\ [][NextOcr]_vars

\* C17: when the recognition call of one field has failed, extractIDData
\* still returns success, with that field's text empty, its confidence 0
\* and its normalized value null.
C17_FieldFailureIsolated ==
    (ocrPc = "done" /\ failedFields # {}) =>
        /\ ocrResult.success = TRUE
        /\ \A f \in failedFields : fieldResults[f] = EmptyFieldResult

\* C18: whenever the name pass or the whole-document pass is being
\* recognised on the shared worker, no character whitelist is in effect;
\* this is to hold on the first run and on every later run.
C18_NoWhitelistOnTextPasses ==
    (ocrPc = "recognize" /\ Passes[ocrPass] \in {"name", "full"}) => whitelist = ""

----------------------------------------------------------------------------
(* isValidDate is called on a YYYY-MM-DD string *)

\* the years of the strings tried: a common year and a leap year
DateYears == {2023, 2024}

\* the YYYY-MM-DD strings tried: every month field 00..13 and day field 00..32
DateStrings == { Iso(y, m, d) : y \in DateYears, m \in 0..13, d \in 0..32 }

dateOthers == <<envVars, parseVars, valVars, startVars, completeVars, authVars, poolVars, singleVars, ocrVars, ageVars, dlVars, cropVars, verifyVars, quadVars>>

InitDates ==
    /\ today = Iso(2024, 6, 1)
    /\ tz \in TzSigns
    /\ text = <<>>
    /\ ParseIdle
    /\ ValIdle
    /\ StartIdle
    /\ CompleteIdle
    /\ AuthIdle
    /\ PoolIdle
    /\ SingleIdle
    /\ OcrIdle
    /\ QuadIdle
    /\ PageIdle
    /\ CropIdle
    /\ DlIdle
    /\ AgeIdle
    /\ isoDate \in DateStrings
    /\ dateValid = "none"

\* isValidDate(isoDate) returns
CheckDate ==
    /\ dateValid = "none"
    /\ dateValid' = IF isValidDate(isoDate, tz) THEN "true" ELSE "false"
    /\ UNCHANGED <<dateOthers, isoDate>>

NextDates == CheckDate

SpecDates == InitDates /\ [][NextDates]_vars

\* C20: isValidDate accepts a YYYY-MM-DD string exactly when it names a real
\* calendar date (month 1..12, day within that month, February 29 only in a
\* leap year), whatever the UTC offset of the host.
C20_ValidIffRealDate ==
    dateValid # "none" => (dateValid = "true" <=> IsRealDate(isoDate))

----------------------------------------------------------------------------
(* calculateAge is called day after day for one birth date *)

ageOthers == <<parseVars, valVars, startVars, completeVars, authVars, poolVars, singleVars, ocrVars, dateVars, dlVars, cropVars, verifyVars, quadVars>>

InitAge ==
    /\ today \in AgeStarts
    /\ tz \in TzSigns
    /\ text = <<>>
    /\ ParseIdle
    /\ ValIdle
    /\ StartIdle
    /\ CompleteIdle
    /\ AuthIdle
    /\ PoolIdle
    /\ SingleIdle
    /\ OcrIdle
    /\ QuadIdle
    /\ PageIdle
    /\ CropIdle
    /\ DlIdle
    /\ DateIdle
    /\ ageBirth \in AgeBirths
    /\ ageNow = calculateAge(ageBirth, today, tz)
    /\ agePrev = NoNum
    /\ ageDays = 0

\* a day passes and calculateAge(birthDate) is called again
AgeNextDay ==
    /\ ageDays < MaxDays
    /\ ageDays' = ageDays + 1
    /\ today' = NextDay(today)
    /\ agePrev' = ageNow
    /\ ageNow' = calculateAge(ageBirth, NextDay(today), tz)
    /\ UNCHANGED <<tz, ageOthers, ageBirth>>

NextAge == AgeNextDay

SpecAge == InitAge /\ [][NextAge]_vars

\* the evaluation date is the calendar anniversary of the birth date
IsAnniversary(birth, now) == now.m = birth.m /\ now.d = birth.d

\* C21: for a fixed birth date calculateAge never decreases from one day to
\* the next, and it increases, by exactly 1, on the calendar anniversary of
\* the birth date and on no other day, whatever the host's UTC offset.
C21_AgeStepsOnAnniversary ==
    ageDays > 0 =>
        /\ ageNow[1] >= agePrev[1]
        /\ ageNow[1] - agePrev[1] \in {0, 1}
        /\ (ageNow[1] = agePrev[1] + 1) <=> IsAnniversary(ageBirth, today)

----------------------------------------------------------------------------
(* The two parsers run on longer texts with labels and several dates *)

\* longest text with labelled and unlabelled dates, in tokens
MaxContextTokens == 4

ContextTokens ==
    { Label("DOB"), Label("EXP"), Label("VALID"), Pad,
      Ymd(1990, 5, 14, 2, 2), Ymd(2005, 6, 1, 2, 2), Pqy(5, 14, 1990, 2, 2) }

ContextTexts == UNION { [1..n -> ContextTokens] : n \in 0..MaxContextTokens }

InitContext ==
    /\ today = Iso(2024, 6, 1)
    /\ tz \in TzSigns
    /\ text \in ContextTexts
    /\ ParseIdle
    /\ ValIdle
    /\ StartIdle
    /\ CompleteIdle
    /\ LaterIdle

SpecContext == InitContext /\ [][NextParse]_vars

\* the date a date token prints, as YYYY-MM-DD; a year-last date is read
\* month first when that is a real date, else day first
PrintedDate(t) ==
    IF t.yf \/ IsRealDate(Iso(t.y, t.p, t.q)) THEN Iso(t.y, t.p, t.q) ELSE Iso(t.y, t.q, t.p)

\* positions of the DOB labels of the text
DobLabels(txt) == { i \in 1..Len(txt) : txt[i].k = "label" /\ txt[i].s = "DOB" }

\* the text has exactly one DOB label, at position i, and a real calendar
\* date follows it at once
OneLabeledDate(txt, i) ==
    /\ DobLabels(txt) = {i}
    /\ i < Len(txt)
    /\ txt[i + 1].k = "date"
    /\ IsRealDate(PrintedDate(txt[i + 1]))

\* C22: when the raw text has exactly one DOB label and a calendar-valid
\* date follows it at once, extractDobFromOcrText returns that date as
\* YYYY-MM-DD and the age counted from it, whatever unlabelled dates stand
\* before or after it.
C22_LabeledDateReturned ==
    "server" \in parsePc =>
        \A i \in 1..Len(text) :
            OneLabeledDate(text, i) =>
                /\ serverDob.birthDate = PrintedDate(text[i + 1])
                /\ serverDob.age = Num(ExactAge(PrintedDate(text[i + 1]), today))

\* the date at position i lies in the context window of an exclusion label
\* (ISS, EXP, DEL are modelled by EXP; VALID by itself)
InExclusionWindow(txt, i) ==
    "EXP" \in ContextLabels(txt, i) \/ "VALID" \in ContextLabels(txt, i)

\* the birth date the server's birth-year fallback reads at position i, NULL
\* when the date there does not qualify
ServerCandidate(txt, i, now, z) ==
    IF i \in BirthYearMatches(txt, TRUE) THEN IfAccepted(YearFirstIso(txt[i]), now, z, TRUE)
    ELSE IF i \in BirthYearMatches(txt, FALSE) THEN YearLastIso(txt[i], now, z, TRUE)
    ELSE NULL

\* the positions of the dates that qualify for the client parser
ClientCandidates(txt, now) == { i \in ClientMatches(txt) : txt[i].y <= now.y - 16 }

\* C23: when the birth date is chosen among unlabelled dates (the text has
\* no DOB label), a date inside the context window of an exclusion label is
\* chosen only if no qualifying date lies outside every such window: if one
\* does, the date returned is that of a candidate outside the windows.  This
\* is to hold for extractBirthDate and for the server's birth-year fallback.
C23_ExcludedDatesLast ==
    DobLabels(text) = {} =>
        /\ "client" \in parsePc =>
              LET outside == { i \in ClientCandidates(text, today) : ~InExclusionWindow(text, i) }
              IN outside # {} => clientDob \in { ClientDate(text[i]) : i \in outside }
        /\ "server" \in parsePc =>
              LET outside == { i \in 1..Len(text) :
                                  /\ ServerCandidate(text, i, today, tz) # NULL
                                  /\ ~InExclusionWindow(text, i) }
              IN outside # {} =>
                    serverDob.birthDate \in { ServerCandidate(text, i, today, tz) : i \in outside }

----------------------------------------------------------------------------
(* parseOntarioDlNumber is called on a raw text and on its own result *)

dlOthers == <<envVars, parseVars, valVars, startVars, completeVars, authVars, poolVars, singleVars, ocrVars, dateVars, ageVars, cropVars, verifyVars, quadVars>>

InitDl ==
    /\ today = Iso(2024, 6, 1)
    /\ tz = 0
    /\ text = <<>>
    /\ ParseIdle
    /\ ValIdle
    /\ StartIdle
    /\ CompleteIdle
    /\ AuthIdle
    /\ PoolIdle
    /\ SingleIdle
    /\ OcrIdle
    /\ QuadIdle
    /\ PageIdle
    /\ CropIdle
    /\ DateIdle
    /\ AgeIdle
    /\ dlRaw \in RawNumbers
    /\ dlPc = "idle"
    /\ dlOut = <<>>
    /\ dlAgain = <<>>

\* parseOntarioDlNumber(raw) returns
ParseDl ==
    /\ dlPc = "idle"
    /\ dlOut' = parseOntarioDlNumber(dlRaw)
    /\ dlPc' = "parsed"
    /\ UNCHANGED <<dlOthers, dlRaw, dlAgain>>

\* the result, when there is one, is parsed again
ReparseDl ==
    /\ dlPc = "parsed"
    /\ dlOut # <<>>
    /\ dlAgain' = parseOntarioDlNumber(dlOut)
    /\ dlPc' = "reparsed"
    /\ UNCHANGED <<dlOthers, dlRaw, dlOut>>

NextDl == ParseDl \/ ReparseDl

SpecDl == InitDl /\ [][NextDl]_vars

\* s is 15 digits grouped 5-5-5 with hyphens
IsNormalised(s) ==
    /\ Len(s) = 17
    /\ s[6] = "-" /\ s[12] = "-"
    /\ \A k \in (1..17) \ {6, 12} : IsDigit(s[k])

\* C24: parseOntarioDlNumber returns a value exactly when the raw text has
\* exactly 15 digits once every other character is removed; the value is
\* those digits in their order grouped 5-5-5 with hyphens; parsing the value
\* again returns it unchanged; any other digit count gives null.
C24_FifteenDigitsGrouped ==
    /\ dlPc # "idle" =>
          /\ (dlOut # <<>>) <=> (Len(OnlyDigits(dlRaw)) = 15)
          /\ dlOut # <<>> => (IsNormalised(dlOut) /\ OnlyDigits(dlOut) = OnlyDigits(dlRaw))
    /\ dlPc = "reparsed" => dlAgain = dlOut

\* C24 witness: a raw text with stray characters and 15 digits was normalised
\* to something else than itself, and the result parsed again
C24_Witness ==
    /\ dlPc = "reparsed"
    /\ dlOut # dlRaw
    /\ \E k \in 1..Len(dlRaw) : dlRaw[k] \in {" ", "O"}
    /\ dlAgain = dlOut

----------------------------------------------------------------------------
(* cropDataUrlRegionToPng is called with an image and a region *)

cropOthers == <<envVars, parseVars, valVars, startVars, completeVars, authVars, poolVars, singleVars, ocrVars, dateVars, ageVars, dlVars, verifyVars, quadVars>>

InitCrop ==
    /\ today = Iso(2024, 6, 1)
    /\ tz = 0
    /\ text = <<>>
    /\ ParseIdle
    /\ ValIdle
    /\ StartIdle
    /\ CompleteIdle
    /\ AuthIdle
    /\ PoolIdle
    /\ SingleIdle
    /\ OcrIdle
    /\ QuadIdle
    /\ PageIdle
    /\ DateIdle
    /\ AgeIdle
    /\ DlIdle
    /\ cropImg \in [width : 1..MaxSide, height : 1..MaxSide]
    /\ cropRegion \in [x : RegionParts, y : RegionParts, w : RegionParts, h : RegionParts]
    /\ cropPc = "idle"
    /\ cropSrc = NoRect

\* the image loads and drawImage is called with the source rectangle
CropDraws ==
    /\ cropPc = "idle"
    /\ cropSrc' = SourceRect(cropRegion, cropImg)
    /\ cropPc' = "drawn"
    /\ UNCHANGED <<cropOthers, cropImg, cropRegion>>

\* img.onerror: the promise rejects before any rectangle is computed
CropLoadFails ==
    /\ cropPc = "idle"
    /\ cropPc' = "failed"
    /\ UNCHANGED <<cropOthers, cropImg, cropRegion, cropSrc>>

NextCrop == CropDraws \/ CropLoadFails

SpecCrop == InitCrop /\ [][NextCrop]_vars

\* C25: for every image of width and height at least 1 and every region
\* with x, y, w and h in [-1, 2], the source rectangle read by
\* cropDataUrlRegionToPng lies inside the image: sx and sy are not negative,
\* sw and sh are at least 1, and sx + sw and sy + sh do not pass the image's
\* width and height.
C25_CropInsideImage ==
    cropPc = "drawn" =>
        /\ cropSrc.sx >= 0 /\ cropSrc.sy >= 0
        /\ cropSrc.sw >= 1 /\ cropSrc.sh >= 1
        /\ cropSrc.sx + cropSrc.sw <= cropImg.width
        /\ cropSrc.sy + cropSrc.sh <= cropImg.height

----------------------------------------------------------------------------
(* The verification page: one action per handler, split at its awaits *)

verifyOthers == <<envVars, parseVars, valVars, startVars, completeVars, authVars, poolVars, singleVars, ocrVars, dateVars, ageVars, dlVars, cropVars, quadVars>>

InitPage ==
    /\ today = Iso(2024, 6, 1)
    /\ tz = 0
    /\ text = <<>>
    /\ ParseIdle
    /\ ValIdle
    /\ StartIdle
    /\ CompleteIdle
    /\ LaterIdle

\* lines 354-366: handleStartOver
handleStartOver ==
    /\ pgIdImage' = "null"
    /\ pgIdData' = "null"
    /\ pgValidation' = "null"
    /\ pgSelfie' = "null"
    /\ pgFace' = "null"
    /\ pgError' = "null"
    /\ pgFailed' = "null"
    /\ pgCred' = "null"
    /\ pgStatus' = ""
    /\ pgStep' = "upload"
    /\ pgIndex' = 0

\* line 399: ValidationView is rendered
ValidationShown ==
    pgStep = "validation" /\ pgValidation # "null" /\ pgIdData # "null" /\ pgIdImage # "null"

\* line 457: MatchedView is rendered
MatchedShown == pgStep = "matched" /\ pgFace # "null"

\* lines 43-48: IDUpload hands over a photo; handleIDUpload runs up to its await
HandleIDUpload ==
    /\ pgStep = "upload"
    /\ Cardinality(pgJobs) < MaxJobs
    /\ \E id \in IdPhotos :
        /\ pgIdImage' = id
        /\ pgJobs' = pgJobs \cup {Job("upload", "extractIDData", id, "null")}
    /\ pgStep' = "processing"
    /\ pgIndex' = 1
    /\ pgVia' = "handleIDUpload"
    /\ UNCHANGED <<pgIdData, pgValidation, pgSelfie, pgFace, pgError, pgFailed, pgCred,
                   pgStatus, pgGates>>
    /\ UNCHANGED verifyOthers

\* lines 57-72: extractIDData returns; the data is validated
ExtractReturns ==
    /\ \E j \in pgJobs :
        /\ j.kind = "upload"
        /\ pgJobs' = pgJobs \ {j}
        /\ \E outcome \in {"failed", "valid", "invalid"} :
            IF outcome = "failed"
            THEN /\ pgError' = "Failed to process ID"
                 /\ pgStep' = "error"
                 /\ UNCHANGED <<pgIdData, pgValidation, pgGates>>
            ELSE /\ pgIdData' = DataOf(j.id)
                 /\ pgValidation' = outcome
                 /\ pgStep' = "validation"
                 /\ pgGates' = IF outcome = "valid" THEN Passed(pgGates, "isValid") ELSE pgGates
                 /\ UNCHANGED pgError
    /\ pgVia' = "await"
    /\ UNCHANGED <<pgIndex, pgIdImage, pgSelfie, pgFace, pgFailed, pgCred, pgStatus>>
    /\ UNCHANGED verifyOthers

\* lines 77-82 and 658: Continue of ValidationView
HandleValidationProceed ==
    /\ ValidationShown
    /\ CanProceed(pgValidation)
    /\ pgStep' = "selfie"
    /\ pgIndex' = 2
    /\ pgVia' = "handleValidationProceed"
    /\ UNCHANGED <<pgIdImage, pgIdData, pgValidation, pgSelfie, pgFace, pgError, pgFailed,
                   pgCred, pgStatus, pgJobs, pgGates>>
    /\ UNCHANGED verifyOthers

\* lines 405, 420, 485: Retake Photo, the camera's Cancel, and Start Over
StartOver ==
    /\ ValidationShown \/ pgStep = "selfie" \/ pgStep = "error"
    /\ handleStartOver
    /\ pgVia' = "handleStartOver"
    /\ UNCHANGED <<pgJobs, pgGates>>
    /\ UNCHANGED verifyOthers

\* lines 86-97: handleSelfieCapture up to its await, in the closure that holds id
SelfieCaptured(id, selfie, others) ==
    /\ pgSelfie' = selfie
    /\ pgIndex' = 3
    /\ IF id = "null"
       THEN /\ pgError' = "ID image not found"
            /\ pgStep' = "error"
            /\ pgJobs' = others
       ELSE /\ Cardinality(others) < MaxJobs
            /\ pgStep' = "matching"
            /\ pgJobs' = others \cup {Job("capture", "matchFaces", id, selfie)}
            /\ UNCHANGED pgError
    /\ UNCHANGED <<pgIdImage, pgIdData, pgValidation, pgFace, pgFailed, pgCred, pgStatus,
                   pgGates>>

\* line 419: the camera hands over a selfie
HandleSelfieCapture ==
    /\ pgStep = "selfie"
    /\ \E selfie \in SelfiePhotos : SelfieCaptured(pgIdImage, selfie, pgJobs)
    /\ pgVia' = "handleSelfieCapture"
    /\ UNCHANGED verifyOthers

\* lines 432-443: a file is chosen in the debug input; a FileReader starts
\* reading it, and its onload holds the handleSelfieCapture of this render
DebugUpload ==
    /\ pgStep = "selfie"
    /\ Cardinality(pgJobs) < MaxJobs
    /\ \E selfie \in SelfiePhotos :
        pgJobs' = pgJobs \cup {Job("reader", "readAsDataURL", pgIdImage, selfie)}
    /\ pgVia' = "onChange"
    /\ UNCHANGED <<pgStep, pgIndex, pgIdImage, pgIdData, pgValidation, pgSelfie, pgFace,
                   pgError, pgFailed, pgCred, pgStatus, pgGates>>
    /\ UNCHANGED verifyOthers

\* lines 437-440: the FileReader's onload calls handleSelfieCapture
ReaderLoads ==
    /\ \E j \in pgJobs :
        /\ j.kind = "reader"
        /\ SelfieCaptured(j.id, j.selfie, pgJobs \ {j})
    /\ pgVia' = "await"
    /\ UNCHANGED verifyOthers

\* lines 105-134: matchFaces returns or throws
MatchReturns ==
    /\ \E j \in pgJobs :
        /\ j.kind = "capture"
        /\ pgJobs' = pgJobs \ {j}
        /\ \E outcome \in {"match", "nomatch", "throws"} :
            CASE outcome = "match" ->
                    /\ pgFace' = "match"
                    /\ pgStep' = "matched"
                    /\ pgGates' = Passed(pgGates, "isMatch")
                    /\ UNCHANGED <<pgError, pgFailed>>
              [] outcome = "nomatch" ->
                    /\ pgFace' = "nomatch"
                    /\ pgError' = "Face match failed"
                    /\ pgFailed' = "selfie"
                    /\ pgStep' = "error"
                    /\ UNCHANGED pgGates
              [] outcome = "throws" ->
                    /\ pgError' = "Face matching failed"
                    /\ pgFailed' = "selfie"
                    /\ pgStep' = "error"
                    /\ UNCHANGED <<pgFace, pgGates>>
    /\ pgVia' = "await"
    /\ UNCHANGED <<pgIndex, pgIdImage, pgIdData, pgValidation, pgSelfie, pgCred, pgStatus>>
    /\ UNCHANGED verifyOthers

\* lines 461-466: Try Again of MatchedView
MatchedRetry ==
    /\ MatchedShown
    /\ pgSelfie' = "null"
    /\ pgFace' = "null"
    /\ pgStep' = "selfie"
    /\ pgIndex' = 2
    /\ pgVia' = "onRetry"
    /\ UNCHANGED <<pgIdImage, pgIdData, pgValidation, pgError, pgFailed, pgCred, pgStatus,
                   pgJobs, pgGates>>
    /\ UNCHANGED verifyOthers

\* lines 138-172: Continue to Passkey; handleProceedToWebAuthn up to its first await
HandleProceedToWebAuthn ==
    /\ MatchedShown
    /\ IF MissingImages(pgIdImage, pgSelfie)
       THEN /\ pgError' = "Missing images for verification"
            /\ pgStep' = "error"
            /\ UNCHANGED <<pgIndex, pgStatus, pgJobs>>
       ELSE /\ Cardinality(pgJobs) < MaxJobs
            /\ pgStep' = "webauthn"
            /\ pgIndex' = 4
            /\ pgStatus' = "Verifying age with server..."
            /\ pgJobs' = pgJobs \cup {Job("proceed", "verify/start", pgIdImage, pgSelfie)}
            /\ UNCHANGED pgError
    /\ pgVia' = "handleProceedToWebAuthn"
    /\ UNCHANGED <<pgIdImage, pgIdData, pgValidation, pgSelfie, pgFace, pgFailed, pgCred,
                   pgGates>>
    /\ UNCHANGED verifyOthers

\* lines 193-195, 206-207, 254-255, 293-294, 306-307, 318-320: a failure of the passkey step
WebauthnFails(message) ==
    /\ pgError' = message
    /\ pgFailed' = "webauthn"
    /\ pgStep' = "error"

\* the answers of POST /api/verify/start
StartAnswers ==
    {[ok |-> FALSE, ocr_passed |-> FALSE, age_passed |-> FALSE]}
        \cup [ok : {TRUE}, ocr_passed : BOOLEAN, age_passed : BOOLEAN]

\* lines 172-219: the fetch of /api/verify/start settles
StartResponds ==
    /\ \E j \in pgJobs :
        /\ j.kind = "proceed"
        /\ j.pc = "verify/start"
        /\ \/ /\ WebauthnFails("Request timeout after 10000ms")
              /\ pgJobs' = pgJobs \ {j}
              /\ UNCHANGED <<pgIdImage, pgSelfie, pgStatus, pgGates>>
           \/ \E result \in StartAnswers :
                IF ~result.ok
                THEN /\ WebauthnFails("Server error")
                     /\ pgJobs' = pgJobs \ {j}
                     /\ UNCHANGED <<pgIdImage, pgSelfie, pgStatus, pgGates>>
                ELSE IF ~ServerPassed(result)
                THEN /\ WebauthnFails("Age verification failed on server")
                     /\ pgJobs' = pgJobs \ {j}
                     /\ UNCHANGED <<pgIdImage, pgSelfie, pgStatus, pgGates>>
                ELSE /\ pgIdImage' = "null"
                     /\ pgSelfie' = "null"
                     /\ pgStatus' = "Complete passkey verification..."
                     /\ pgJobs' = (pgJobs \ {j})
                                    \cup {Job("proceed", "startRegistration", j.id, j.selfie)}
                     /\ pgGates' = Passed(pgGates, "verdict")
                     /\ UNCHANGED <<pgError, pgFailed, pgStep>>
    /\ pgVia' = "await"
    /\ UNCHANGED <<pgIndex, pgIdData, pgValidation, pgFace, pgCred>>
    /\ UNCHANGED verifyOthers

\* lines 233-260: startRegistration resolves or rejects
RegistrationReturns ==
    /\ \E j \in pgJobs :
        /\ j.kind = "proceed"
        /\ j.pc = "startRegistration"
        /\ \/ /\ \E message \in {"Passkey verification was cancelled. Please try again.",
                                 "WebAuthn registration failed"} : WebauthnFails(message)
              /\ pgJobs' = pgJobs \ {j}
              /\ UNCHANGED pgStatus
           \/ /\ pgStatus' = "Storing credential..."
              /\ pgJobs' = (pgJobs \ {j})
                             \cup {Job("proceed", "verify/complete", j.id, j.selfie)}
              /\ UNCHANGED <<pgError, pgFailed, pgStep>>
    /\ pgVia' = "await"
    /\ UNCHANGED <<pgIndex, pgIdImage, pgIdData, pgValidation, pgSelfie, pgFace, pgCred,
                   pgGates>>
    /\ UNCHANGED verifyOthers

\* lines 267-320: the fetch of /api/verify/complete settles
CompleteResponds ==
    /\ \E j \in pgJobs :
        /\ j.kind = "proceed"
        /\ j.pc = "verify/complete"
        /\ pgJobs' = pgJobs \ {j}
        /\ \/ /\ \E message \in {"Verification failed", "Server error",
                                 "Failed to store credential"} : WebauthnFails(message)
              /\ UNCHANGED <<pgCred, pgGates>>
           \/ /\ pgCred' = "credential"
              /\ pgStep' = "success"
              /\ pgGates' = Passed(pgGates, "complete")
              /\ UNCHANGED <<pgError, pgFailed>>
    /\ pgVia' = "await"
    /\ UNCHANGED <<pgIndex, pgIdImage, pgIdData, pgValidation, pgSelfie, pgFace, pgStatus>>
    /\ UNCHANGED verifyOthers

\* lines 325-351: Retry This Step of ErrorView
HandleRetryCurrentStep ==
    /\ pgStep = "error"
    /\ CASE pgFailed = "selfie" ->
              /\ pgSelfie' = "null"
              /\ pgFace' = "null"
              /\ pgStep' = "selfie"
              /\ pgIndex' = 2
              /\ pgError' = "null"
              /\ pgFailed' = "null"
              /\ UNCHANGED <<pgIdImage, pgIdData, pgValidation, pgCred, pgStatus>>
         [] pgFailed = "webauthn" ->
              /\ pgStep' = "matched"
              /\ pgIndex' = 3
              /\ pgError' = "null"
              /\ pgFailed' = "null"
              /\ UNCHANGED <<pgIdImage, pgIdData, pgValidation, pgSelfie, pgFace, pgCred,
                             pgStatus>>
         [] pgFailed = "validation" ->
              /\ pgIdImage' = "null"
              /\ pgIdData' = "null"
              /\ pgValidation' = "null"
              /\ pgStep' = "upload"
              /\ pgIndex' = 0
              /\ pgError' = "null"
              /\ pgFailed' = "null"
              /\ UNCHANGED <<pgSelfie, pgFace, pgCred, pgStatus>>
         [] OTHER -> handleStartOver
    /\ pgVia' = "handleRetryCurrentStep"
    /\ UNCHANGED <<pgJobs, pgGates>>
    /\ UNCHANGED verifyOthers

NextPage ==
    \/ HandleIDUpload
    \/ ExtractReturns
    \/ HandleValidationProceed
    \/ StartOver
    \/ HandleSelfieCapture
    \/ DebugUpload
    \/ ReaderLoads
    \/ MatchReturns
    \/ MatchedRetry
    \/ HandleProceedToWebAuthn
    \/ StartResponds
    \/ RegistrationReturns
    \/ CompleteResponds
    \/ HandleRetryCurrentStep

SpecPage == InitPage /\ [][NextPage]_vars

\* C26: whenever the page is in the success step, the ID image, the selfie
\* image and the extracted ID data held in page state have all been cleared
C26_SuccessHoldsNoData ==
    pgStep = "success" =>
        (pgIdImage = "null" /\ pgSelfie = "null" /\ pgIdData = "null")

\* C27: the page is in the success step only after validation returned
\* isValid, then the face match returned isMatch, then /api/verify/start
\* answered with ocr_passed and age_passed, then /api/verify/complete
\* reported success
C27_SuccessOnlyAfterGates == pgStep = "success" => pgGates = Gate("complete")

C27_Witness ==
    /\ pgStep = "success"
    /\ pgGates = Gate("complete")
    /\ pgCred = "credential"

\* C28: when Retry This Step has brought the page back to the matched step
\* after a failure of the passkey step, Continue to Passkey starts a new
\* attempt: the page goes to the webauthn step, not to the error step
C28_RetryThenContinueProceeds ==
    [][(/\ pgStep = "matched"
        /\ pgVia = "handleRetryCurrentStep"
        /\ pgVia' = "handleProceedToWebAuthn") => pgStep' = "webauthn"]_vars

----------------------------------------------------------------------------
(* The in-memory challenge store under repeated writes of one key *)

\* the pending timer of the latest storeChallenge(id, ...) call
LatestTimer(t) == \A u \in memTimers : u.id = t.id => u.at <= t.at

\* deleteChallenge has been called: a confirm request got past its last step
DeleteCalled == \E r \in AuthReqs : Verified(r)

\* C29: a challenge written by storeChallenge stays retrievable by
\* getChallenge until 5 minutes after that write unless deleteChallenge is
\* called for its key, also when the same key was stored before and is
\* stored again before the earlier entry's timer fires
C29_StoredUntilOwnExpiry ==
    \A t \in memTimers :
        (t.at > clock /\ LatestTimer(t) /\ ~DeleteCalled) =>
            MapGet(memChallenges, t.id) # {}

----------------------------------------------------------------------------
(* getQuadFromContour orders the four points of a detected quadrilateral *)

quadOthers == <<envVars, parseVars, valVars, startVars, completeVars, authVars, poolVars, singleVars, ocrVars, dateVars, ageVars, dlVars, cropVars, verifyVars>>

InitQuad ==
    /\ today = Iso(2024, 6, 1)
    /\ tz = 0
    /\ text = <<>>
    /\ ParseIdle
    /\ ValIdle
    /\ StartIdle
    /\ CompleteIdle
    /\ AuthIdle
    /\ PoolIdle
    /\ SingleIdle
    /\ OcrIdle
    /\ DateIdle
    /\ AgeIdle
    /\ DlIdle
    /\ CropIdle
    /\ PageIdle
    /\ quadPoints \in Quads
    /\ quadPc = "idle"
    /\ quadOut = <<>>

\* lines 185-203: getQuadFromContour returns orderQuadPoints(pts)
GetQuadFromContour ==
    /\ quadPc = "idle"
    /\ quadOut' = orderQuadPoints(quadPoints)
    /\ quadPc' = "ordered"
    /\ UNCHANGED quadPoints
    /\ UNCHANGED quadOthers

NextQuad == GetQuadFromContour

SpecQuad == InitQuad /\ [][NextQuad]_vars

\* C30: for the four corner points of a detected quadrilateral,
\* orderQuadPoints returns each input point exactly once: tl, tr, br and bl
\* are four distinct input points
C30_EachCornerOnce ==
    quadPc = "ordered" =>
        /\ \A i, j \in 1..4 : i # j => quadOut[i] # quadOut[j]
        /\ Range(quadOut) = Range(quadPoints)

====
